---- MODULE Spec2Model ----
(***************************************************************************)
(* Keychain service (app/service/KeychainService.js): reception,           *)
(* validation and application of keyblocks on the Web of Trust.            *)
(*                                                                         *)
(* submitKeyBlock is an asynchronous handler: several calls may be in      *)
(* flight at once.  A call reads the current block and validates the       *)
(* received block (Submit), then saveBlockData runs as three storage       *)
(* steps (SaveBlock, UpdateData, ComputeObsolete), between which the steps *)
(* of another call may run.                                                *)
(*                                                                         *)
(* The collections KeyBlock, Key, Link, TrustedKey and Membership are      *)
(* persistence models whose code is not part of the service file; their    *)
(* queries are modelled from their documented contract.                    *)
(***************************************************************************)
EXTENDS Integers, Sequences, FiniteSets, TLC

\* ------------------------------------------------------------------------
\* Bounds of the model
\* ------------------------------------------------------------------------
MaxNumber   == 1    \* highest block number that may be stored
MaxTime     == 2    \* latest timestamp a received block may carry
MaxNow      == 1    \* highest value of the node's clock
MaxZeros    == 2    \* highest number of leading zeros of a received hash
MaxOverlaps == 1    \* calls that may be accepted while another is in flight
MaxDistance == 28   \* highest distance of a block to its issuer's last one
MaxStored   == 2    \* stored blocks after a call that failed to read the tip

Keys    == {"A", "B", "C", "D", "E"}
Issuers == {"A", "D"}
Timestamps == {0, MaxTime}
Procs   == {1, 2}
NoKey   == ""
NoHash  == <<>>

\* Configurations (conf.*) the node may run with.
Confs ==
  { [sigQty |-> 2, sigValidity |-> 1, powZeroMin |-> 1, tsInterval |-> 1,
     powPeriod |-> 2, powPeriodC |-> TRUE],
    [sigQty |-> 2, sigValidity |-> 1, powZeroMin |-> 1, tsInterval |-> 1,
     powPeriod |-> 50, powPeriodC |-> FALSE] }

VARIABLES
  conf,                    \* configuration of the node
  now,                     \* the node's clock (new Date())
  checkWithLocalTimestamp, \* this.checkWithLocalTimestamp
  blocks,                  \* KeyBlock collection, in order of save
  member,                  \* Key collection: member flag
  kick,                    \* Key collection: kick flag
  distanced,               \* Key collection: distanced keys
  trusted,                 \* TrustedKey collection (fingerprints)
  links,                   \* Link collection, in order of save
  memberships,             \* Membership collection, in order of save
  pubkeys,                 \* PublicKey collection (fingerprints)
  newKeyblockCallback,     \* parked continuation of a submitKeyBlock (0: null)
  computeNextCallback,     \* parked restart of the PoW computation
  computationActivated,    \* flag: PoW computation started
  pc,                      \* position of each submitKeyBlock call
  kb,                      \* block of each call in flight
  newLinks,                \* newLinks of each call in flight
  lastResult,              \* outcome handed to the callback of a call
  overlaps,                \* calls accepted while another was in flight
  trial,                   \* a call of getTrialLevel: its inputs and result
  gen,                     \* the PoW computation: startGeneration and prove
  built,                   \* a call of the block builder: inputs and result
  sync                     \* the membership service of the amendments

stores == <<blocks, member, kick, distanced, trusted, links, memberships>>
flags  == <<newKeyblockCallback, computeNextCallback, computationActivated>>
env    == <<conf, now, checkWithLocalTimestamp>>
vars   == <<conf, now, checkWithLocalTimestamp, blocks, member, kick,
            distanced, trusted, links, memberships, pubkeys,
            newKeyblockCallback,
            computeNextCallback, computationActivated, pc, kb, newLinks,
            lastResult, overlaps, trial, gen,
                 built, sync>>

\* ------------------------------------------------------------------------
\* Helpers
\* ------------------------------------------------------------------------
Range(s) == {s[i] : i \in DOMAIN s}

Max(a, b) == IF a >= b THEN a ELSE b

\* ------------------------------------------------------------------------
\* Received documents
\* ------------------------------------------------------------------------
\* A keychange: certs are the issuers of its certification packets, in
\* order; membership is the kind of the embedded membership ("none" when
\* absent); subkeys tells whether keypackets carries subkey material.
KcN(fpr, certs) ==
  [type |-> "N", fingerprint |-> fpr, certs |-> certs, membership |-> "IN",
   subkeys |-> FALSE]
KcU(fpr, certs) ==
  [type |-> "U", fingerprint |-> fpr, certs |-> certs, membership |-> "none",
   subkeys |-> FALSE]
KcL(fpr) ==
  [type |-> "L", fingerprint |-> fpr, certs |-> <<>>, membership |-> "none",
   subkeys |-> FALSE]
KcB(fpr) ==
  [type |-> "B", fingerprint |-> fpr, certs |-> <<>>, membership |-> "none",
   subkeys |-> FALSE]
KcX(fpr) ==
  [type |-> "X", fingerprint |-> fpr, certs |-> <<>>, membership |-> "none",
   subkeys |-> FALSE]

\* Contents (membersChanges and keysChanges) a received block may carry.
Contents ==
  { [name |-> "empty", adds |-> {}, removes |-> {}, keysChanges |-> <<>>],
    \* three founders certifying each other
    [name |-> "G3", adds |-> {"A", "B", "C"}, removes |-> {},
     keysChanges |-> << KcN("A", <<"B", "C">>), KcN("B", <<"A", "C">>),
                        KcN("C", <<"A", "B">>) >>],
    \* a ring of three: one certification each
    [name |-> "R3", adds |-> {"A", "B", "C"}, removes |-> {},
     keysChanges |-> << KcN("A", <<"C">>), KcN("B", <<"A">>),
                        KcN("C", <<"B">>) >>],
    \* a ring of four: every key within 3 steps of every other
    [name |-> "R4", adds |-> {"A", "B", "C", "D"}, removes |-> {},
     keysChanges |-> << KcN("A", <<"D">>), KcN("B", <<"A">>),
                        KcN("C", <<"B">>), KcN("D", <<"C">>) >>],
    \* a ring of five: some keys at 4 steps
    [name |-> "R5", adds |-> {"A", "B", "C", "D", "E"}, removes |-> {},
     keysChanges |-> << KcN("A", <<"E">>), KcN("B", <<"A">>),
                        KcN("C", <<"B">>), KcN("D", <<"C">>),
                        KcN("E", <<"D">>) >>],
    \* D joins, certified by A and B, and certifies A
    [name |-> "JD", adds |-> {"D"}, removes |-> {},
     keysChanges |-> << KcN("D", <<"A", "B">>), KcU("A", <<"D">>) >>],
    \* D joins with a single certification
    [name |-> "JD1", adds |-> {"D"}, removes |-> {},
     keysChanges |-> << KcN("D", <<"A">>), KcU("A", <<"D">>) >>],
    \* D joins, certified by A and B, but certifies nobody
    [name |-> "JDx", adds |-> {"D"}, removes |-> {},
     keysChanges |-> << KcN("D", <<"A", "B">>) >>],
    \* C joins (again) with a single new certification
    [name |-> "JC1", adds |-> {"C"}, removes |-> {},
     keysChanges |-> << KcN("C", <<"A">>) >>],
    \* a certification of D, who is not in the keychain, by A
    [name |-> "UD", adds |-> {}, removes |-> {},
     keysChanges |-> << KcU("D", <<"A">>) >>],
    \* a certification of A by C
    [name |-> "UAC", adds |-> {}, removes |-> {},
     keysChanges |-> << KcU("A", <<"C">>) >>],
    \* a certification of A by D, who is not in the keychain
    [name |-> "UAD", adds |-> {}, removes |-> {},
     keysChanges |-> << KcU("A", <<"D">>) >>],
    \* D joins as in JD, with a certification of E, who is not in the
    \* keychain, by A
    [name |-> "JDE", adds |-> {"D"}, removes |-> {},
     keysChanges |-> << KcN("D", <<"A", "B">>), KcU("A", <<"D">>),
                        KcU("E", <<"A">>) >>],
    \* C leaves
    [name |-> "XC", adds |-> {}, removes |-> {"C"}, keysChanges |-> <<>>],
    \* A is added without any keychange
    [name |-> "PA", adds |-> {"A"}, removes |-> {}, keysChanges |-> <<>>],
    \* A, B and C are kicked
    [name |-> "XABC", adds |-> {}, removes |-> {"A", "B", "C"},
     keysChanges |-> <<>>],
    \* a LEAVER keychange
    [name |-> "L", adds |-> {}, removes |-> {}, keysChanges |-> << KcL("C") >>],
    \* D joins as in JD, with a LEAVER keychange in last place
    [name |-> "JDL", adds |-> {"D"}, removes |-> {},
     keysChanges |-> << KcN("D", <<"A", "B">>), KcU("A", <<"D">>),
                        KcL("C") >>],
    \* D joins as in JD, with a BACK keychange in first place
    [name |-> "BJD", adds |-> {"D"}, removes |-> {},
     keysChanges |-> << KcB("C"), KcN("D", <<"A", "B">>),
                        KcU("A", <<"D">>) >>],
    \* D joins as in JD, with a keychange of an unknown type in between
    [name |-> "JXD", adds |-> {"D"}, removes |-> {},
     keysChanges |-> << KcN("D", <<"A", "B">>), KcX("C"),
                        KcU("A", <<"D">>) >>]
  }

\* The Merkle root of a list of fingerprints, sorted: modelled by the set of
\* the leaves it was computed from.
MerkleRoot(leaves) == [sha1 |-> leaves]

\* The hash of a document is modelled by the list of what it was computed
\* from (one entry per block back to the root), so that different blocks
\* have different hashes; its leading zeros are those found by the proof of
\* work.  membersCount and membersRoot are those of the members the block
\* declares.
MkBlock(number, previousHash, previousIssuer, timestamp, issuer, zeros, members, content) ==
  [number |-> number, previousHash |-> previousHash,
   previousIssuer |-> previousIssuer, timestamp |-> timestamp,
   issuer |-> issuer, membersCount |-> Cardinality(members),
   membersRoot |-> MerkleRoot(members),
   membersChanges |-> ({<<"+", f>> : f \in content.adds}
                       \cup {<<"-", f>> : f \in content.removes}),
   keysChanges |-> content.keysChanges,
   hash |-> Append(previousHash,
                   <<number, previousIssuer, timestamp, issuer, zeros,
                     content.name, members>>)]

LeadingZeros(hash) == IF hash = NoHash THEN 0 ELSE hash[Len(hash)][5]

Adds(block)    == {c[2] : c \in {x \in block.membersChanges : x[1] = "+"}}
Removes(block) == {c[2] : c \in {x \in block.membersChanges : x[1] = "-"}}

NoBlock == MkBlock(-1, NoHash, NoKey, 0, NoKey, 0, {},
                   [name |-> "none", adds |-> {}, removes |-> {},
                    keysChanges |-> <<>>])

\* ------------------------------------------------------------------------
\* Queries of the persistence models
\* ------------------------------------------------------------------------
Members == {k \in Keys : member[k]}

\* KeyBlock.current: a stored block of the highest number, none when the
\* collection is empty.
TopNumber == IF blocks = <<>> THEN -1
             ELSE CHOOSE n \in {b.number : b \in Range(blocks)} :
                    \A b \in Range(blocks) : b.number <= n
Currents == IF blocks = <<>> THEN {NoBlock}
            ELSE {b \in Range(blocks) : b.number = TopNumber}

\* KeyBlock.lastOfIssuer: the block of the highest number issued by a key.
HasIssued(issuer) == \E b \in Range(blocks) : b.issuer = issuer
LastOfIssuer(issuer) ==
  CHOOSE b \in Range(blocks) :
    /\ b.issuer = issuer
    /\ \A c \in Range(blocks) : c.issuer = issuer => c.number <= b.number

\* Link.currentValidLinks: the stored links to a key that are not obsolete.
CurrentValidLinks(lnks, target) ==
  {i \in DOMAIN lnks : lnks[i].target = target /\ ~lnks[i].obsolete}

\* Directed edges <<source, target>> of the stored valid links and of a
\* newLinks map.
ValidEdges(lnks) ==
  {<<lnks[i].source, lnks[i].target>> :
     i \in {j \in DOMAIN lnks : ~lnks[j].obsolete}}
NewEdges(nl) ==
  UNION { {<<nl[i].certifiers[j], nl[i].target>> :
             j \in DOMAIN nl[i].certifiers} : i \in DOMAIN nl }

\* Keys reached from a set of keys in at most n certification steps.
RECURSIVE Within(_, _, _)
Within(S, E, n) ==
  IF n = 0 THEN S
  ELSE Within(S \cup {e[2] : e \in {x \in E : x[1] \in S}}, E, n - 1)

\* Link.isOver3StepsOfAMember: the members that have no path of at most 3
\* stored valid links to the key.
IsOver3StepsOfAMember(lnks, key, mems) ==
  {m \in mems : key \notin Within({m}, ValidEdges(lnks), 3)}

\* Link.isStillOver3Steps: the candidates that still have no path of at
\* most 3 links to the key when the new links are added.
IsStillOver3Steps(lnks, key, candidates, nl) ==
  {m \in candidates :
     key \notin Within({m}, ValidEdges(lnks) \cup NewEdges(nl), 3)}

\* Key.getToBeKicked: the keys whose kick flag is set.
ToBeKicked == {k \in Keys : kick[k]}

\* TrustedKey.getTheOne fails when no trusted key has the fingerprint.
IsTrusted(tks, fpr) == fpr \in tks

\* PublicKey.getTheOne fails when no public key has the fingerprint.
HasPubkey(pks, fpr) == fpr \in pks

\* ------------------------------------------------------------------------
\* Validation of a received block
\* ------------------------------------------------------------------------
\* Chaining tests of submitKeyBlock against the block read by
\* KeyBlock.current ("" when they pass).
CheckChainingWithoutTooLate(current, block) ==
  LET none == (current = NoBlock) IN
  IF none /\ block.number > 0 THEN "RequiresRoot"
  ELSE IF ~none /\ block.number > current.number + 1 THEN "TooEarly"
  ELSE IF ~none /\ block.number = current.number + 1
          /\ block.previousHash # current.hash THEN "BadPrevHash"
  ELSE IF ~none /\ block.number = current.number + 1
          /\ block.previousIssuer # current.issuer THEN "BadPrevIssuer"
  ELSE ""

CheckChaining(current, block) ==
  LET none == (current = NoBlock) IN
  IF none /\ block.number > 0 THEN "RequiresRoot"
  ELSE IF ~none /\ block.number <= current.number THEN "TooLate"
  ELSE IF ~none /\ block.number > current.number + 1 THEN "TooEarly"
  ELSE IF ~none /\ block.number = current.number + 1
          /\ block.previousHash # current.hash THEN "BadPrevHash"
  ELSE IF ~none /\ block.number = current.number + 1
          /\ block.previousIssuer # current.issuer THEN "BadPrevIssuer"
  ELSE ""

Abs(x) == IF x < 0 THEN -x ELSE x

CheckTimestampAtInterval(block) ==
  IF checkWithLocalTimestamp /\ Abs(block.timestamp - now) >= conf.tsInterval
  THEN "BadTimestamp" ELSE ""

CheckTimestamp(block) ==
  IF checkWithLocalTimestamp /\ Abs(block.timestamp - now) > conf.tsInterval
  THEN "BadTimestamp" ELSE ""

\* Math.floor(powPeriod/100*currentWoTsize) in double precision: the
\* quotient powPeriod/100 is rounded before it is multiplied, and for the
\* pairs below (all of them for powPeriod <= 100 and a size <= 200) the
\* product falls just under the integer powPeriod*currentWoTsize/100.
RoundedUnder ==
  { <<29, 100>>, <<29, 200>>, <<35, 180>>, <<57, 100>>, <<57, 200>>,
    <<58, 50>>, <<58, 100>>, <<58, 200>>, <<70, 90>>, <<70, 170>>,
    <<70, 180>>, <<82, 150>> }

FloorOfPercent(powPeriod, currentWoTsize) ==
  IF <<powPeriod, currentWoTsize>> \in RoundedUnder
  THEN (powPeriod * currentWoTsize) \div 100 - 1
  ELSE (powPeriod * currentWoTsize) \div 100

NbPeriodsToWait(cnf, currentWoTsize) ==
  IF cnf.powPeriodC THEN cnf.powPeriod
  ELSE FloorOfPercent(cnf.powPeriod, currentWoTsize)

\* getTrialLevel, once the issuer's last block is read (NoBlock: none).  A
\* period of 0 makes the division infinite: the penalty is then fully
\* waited when the block comes after the issuer's last one, and no hash
\* matches otherwise.
TrialLevel(cnf, last, nextBlockNumber, currentWoTsize) ==
  IF last = NoBlock THEN Max(cnf.powZeroMin, cnf.powZeroMin + 0 - 0)
  ELSE
    LET lastBlockPenality == LeadingZeros(last.hash) - cnf.powZeroMin + 1
        nbPeriodsToWait == NbPeriodsToWait(cnf, currentWoTsize)
    IN IF nbPeriodsToWait = 0
       THEN (IF nextBlockNumber > last.number THEN cnf.powZeroMin
             ELSE MaxZeros + 1)
       ELSE Max(cnf.powZeroMin,
                cnf.powZeroMin + lastBlockPenality
                  - ((nextBlockNumber - last.number) \div nbPeriodsToWait))

\* getTrialLevel: number of zeros required from an issuer.
GetTrialLevel(issuer, nextBlockNumber, currentWoTsize) ==
  TrialLevel(conf, IF HasIssued(issuer) THEN LastOfIssuer(issuer) ELSE NoBlock,
             nextBlockNumber, currentWoTsize)

CheckProofOfWork(current, block) ==
  IF LeadingZeros(block.hash) < conf.powZeroMin THEN "NotPoW"
  ELSE IF LeadingZeros(block.hash)
            < GetTrialLevel(block.issuer, block.number,
                            IF current = NoBlock THEN 0
                            ELSE current.membersCount)
       THEN "WrongPoWLevel"
  ELSE ""

CheckIssuerTrustingChanges(block) ==
  IF member[block.issuer] THEN ""
  ELSE IF <<"+", block.issuer>> \in block.membersChanges THEN ""
  ELSE IF block.number = 0 THEN "NotRootMember"
  ELSE "NotMember"

CheckIssuer(block) ==
  IF member[block.issuer] THEN ""
  ELSE IF block.number = 0
       THEN (IF <<"+", block.issuer>> \in block.membersChanges THEN ""
             ELSE "NotRootMember")
  ELSE "NotMember"

CheckCertificationOfKeyOfAnyKey(certifier, certifiedFPR, newKeys) ==
  IF certifiedFPR \notin newKeys /\ ~HasPubkey(pubkeys, certifiedFPR)
  THEN "PubkeyNotFound"
  ELSE IF ~HasPubkey(pubkeys, certifier) THEN "PubkeyNotFound"
  ELSE ""

\* checkCertificationOfKey: the certified key is a NEWCOMER of the block or
\* has a stored public key; the certifier is a NEWCOMER of the block, or a
\* trusted key that is a member, and has a stored public key (signatures
\* themselves are taken as good).
CheckCertificationOfKey(certifier, certifiedFPR, newKeys) ==
  IF certifiedFPR \notin newKeys /\ ~HasPubkey(pubkeys, certifiedFPR)
  THEN "PubkeyNotFound"
  ELSE IF certifier \notin newKeys /\ ~IsTrusted(trusted, certifier)
  THEN "KeyNotFound"
  ELSE IF ~HasPubkey(pubkeys, certifier) THEN "PubkeyNotFound"
  ELSE IF certifier \notin newKeys /\ ~member[certifier] THEN "NonMemberSig"
  ELSE ""

CertificationsError(certs, certifiedFPR, newKeys) ==
  LET bad == {i \in DOMAIN certs :
                CheckCertificationOfKey(certs[i], certifiedFPR, newKeys) # ""}
  IN IF bad = {} THEN ""
     ELSE CheckCertificationOfKey(
            certs[CHOOSE i \in bad : \A j \in bad : i <= j],
            certifiedFPR, newKeys)

CheckKeychange(kc, newKeys) ==
  IF kc.type = "N" THEN
    IF kc.membership = "none" THEN "BadKeychange"
    ELSE IF kc.certs = <<>> THEN "NoCertPackets"
    ELSE IF kc.membership # "IN" THEN "NotIN"
    ELSE CertificationsError(kc.certs, kc.fingerprint, newKeys)
  ELSE IF kc.type = "U" THEN
    IF kc.membership # "none" THEN "MembershipInUpdate"
    ELSE IF ~kc.subkeys /\ kc.certs = <<>> THEN "EmptyUpdate"
    ELSE CertificationsError(kc.certs, kc.fingerprint, newKeys)
  ELSE IF kc.type = "L" THEN "LeaverNotManaged"
  ELSE IF kc.type = "B" THEN "BackNotManaged"
  ELSE "UnknownType"

\* newLinks[target] = certifiers: a later keychange of the same fingerprint
\* replaces the entry, which keeps its place.
PutLinks(nl, target, certifiers) ==
  IF \E i \in DOMAIN nl : nl[i].target = target
  THEN [i \in DOMAIN nl |->
          IF nl[i].target = target
          THEN [target |-> target, certifiers |-> certifiers] ELSE nl[i]]
  ELSE Append(nl, [target |-> target, certifiers |-> certifiers])

LinksTo(nl, target) ==
  IF \E i \in DOMAIN nl : nl[i].target = target
  THEN nl[CHOOSE i \in DOMAIN nl : nl[i].target = target].certifiers
  ELSE <<>>

\* The types of keychange that checkKeychanges lets through.
ManagedTypeWithLeaver(kc) == kc.type = "U" \/ kc.type = "N" \/ kc.type = "L"

ManagedType(kc) == kc.type = "U" \/ kc.type = "N"

\* checkKeychanges: all keychanges are visited for type N, then for type U.
RECURSIVE CheckKeychangesFrom(_, _, _, _)
CheckKeychangesFrom(kcs, newKeys, v, nl) ==
  IF v > 2 * Len(kcs) THEN [err |-> "", newLinks |-> nl]
  ELSE
    LET currentType == IF v <= Len(kcs) THEN "N" ELSE "U"
        kc == kcs[IF v <= Len(kcs) THEN v ELSE v - Len(kcs)]
    IN IF ~ManagedType(kc)
       THEN [err |-> "OnlyNU", newLinks |-> nl]
       ELSE IF kc.type # currentType
       THEN CheckKeychangesFrom(kcs, newKeys, v + 1, nl)
       ELSE IF CheckKeychange(kc, newKeys) # ""
       THEN [err |-> CheckKeychange(kc, newKeys), newLinks |-> nl]
       ELSE CheckKeychangesFrom(kcs, newKeys, v + 1,
                                PutLinks(nl, kc.fingerprint, kc.certs))

CheckKeychanges(block) ==
  LET kcs == block.keysChanges
      newKeys == {kcs[i].fingerprint :
                    i \in {j \in DOMAIN kcs : kcs[j].type = "N"}}
  IN CheckKeychangesFrom(kcs, newKeys, 1, <<>>)

CheckHaveEnoughLinksOffByOne(lnks, target, nl) ==
  Cardinality(CurrentValidLinks(lnks, target)) + Len(LinksTo(nl, target))
    < conf.sigQty - 1

CheckHaveEnoughLinks(lnks, target, nl) ==
  Cardinality(CurrentValidLinks(lnks, target)) + Len(LinksTo(nl, target))
    < conf.sigQty

NewcomerErrorOneWay(block, nl, newcomer, members) ==
  IF block.number > 0 /\ CheckHaveEnoughLinks(links, newcomer, nl)
  THEN "NotEnoughLinks"
  ELSE
    LET firstCheck == IsOver3StepsOfAMember(links, newcomer, members) IN
    IF firstCheck # {}
       /\ IsStillOver3Steps(links, newcomer, firstCheck, nl) # {}
    THEN "NotRecognized"
    ELSE ""

\* checkWoTStability, for one newcomer of the block.
NewcomerError(block, nl, newcomer, members) ==
  IF block.number > 0 /\ CheckHaveEnoughLinks(links, newcomer, nl)
  THEN "NotEnoughLinks"
  ELSE
    LET firstCheck == IsOver3StepsOfAMember(links, newcomer, members) IN
    IF firstCheck # {}
       /\ IsStillOver3Steps(links, newcomer, firstCheck, nl) # {}
    THEN "NotRecognized"
    ELSE IF \E m \in members :
              IsStillOver3Steps(links, m, {newcomer}, nl) # {}
    THEN "CannotRecognize"
    ELSE ""

CheckWoTStability(block, nl) ==
  IF ~(block.number >= 0) THEN "NoCallback"
  ELSE
    LET newcomers == Adds(block)
        members == Members \cup newcomers
        failing == {n \in newcomers :
                      NewcomerError(block, nl, n, members) # ""}
    IN IF failing = {} THEN ""
       ELSE NewcomerError(block, nl, CHOOSE n \in failing : TRUE, members)

\* checkKicked: with any key to be kicked, the result of isStillOver3Steps
\* is handed to the step that reads res.outdistanced.length, which throws.
CheckKicked(block, nl) ==
  IF ToBeKicked # {} THEN "Thrown" ELSE ""

\* checkCommunityChanges: every membership of the block's keychanges has
\* its entry in membersChanges.
CheckCommunityChanges(block) ==
  LET kcs == block.keysChanges IN
  IF \E i \in DOMAIN kcs :
       /\ kcs[i].membership # "none"
       /\ <<(IF kcs[i].membership = "IN" THEN "+" ELSE "-"),
            kcs[i].fingerprint>> \notin block.membersChanges
  THEN "WrongMembersChanges" ELSE ""

CheckCoherence(block) ==
  LET res == CheckKeychanges(block) IN
  IF res.err # "" THEN res
  ELSE IF CheckWoTStability(block, res.newLinks) # ""
  THEN [err |-> CheckWoTStability(block, res.newLinks),
        newLinks |-> res.newLinks]
  ELSE IF CheckKicked(block, res.newLinks) # ""
  THEN [err |-> CheckKicked(block, res.newLinks), newLinks |-> res.newLinks]
  ELSE [err |-> CheckCommunityChanges(block), newLinks |-> res.newLinks]

ValidateTimestampFirst(current, block) ==
  IF CheckTimestamp(block) # ""
  THEN [err |-> CheckTimestamp(block), newLinks |-> <<>>]
  ELSE IF CheckChaining(current, block) # ""
  THEN [err |-> CheckChaining(current, block), newLinks |-> <<>>]
  ELSE IF CheckProofOfWork(current, block) # ""
  THEN [err |-> CheckProofOfWork(current, block), newLinks |-> <<>>]
  ELSE IF CheckIssuer(block) # ""
  THEN [err |-> CheckIssuer(block), newLinks |-> <<>>]
  ELSE CheckCoherence(block)

\* The checks of submitKeyBlock, in order, up to checkCoherence.
Validate(current, block) ==
  IF CheckChaining(current, block) # ""
  THEN [err |-> CheckChaining(current, block), newLinks |-> <<>>]
  ELSE IF CheckTimestamp(block) # ""
  THEN [err |-> CheckTimestamp(block), newLinks |-> <<>>]
  ELSE IF CheckProofOfWork(current, block) # ""
  THEN [err |-> CheckProofOfWork(current, block), newLinks |-> <<>>]
  ELSE IF CheckIssuer(block) # ""
  THEN [err |-> CheckIssuer(block), newLinks |-> <<>>]
  ELSE CheckCoherence(block)

\* ------------------------------------------------------------------------
\* Blocks the node may receive
\* ------------------------------------------------------------------------
\* A block built on a block of the highest number (on nothing when there
\* is none), with any content, issuer, timestamp and proof of work.
ContentBlock(parent, ts, issuer, zeros, c) ==
  MkBlock(IF parent = NoBlock THEN 0 ELSE parent.number + 1,
          IF parent = NoBlock THEN NoHash ELSE parent.hash,
          IF parent = NoBlock THEN NoKey ELSE parent.issuer,
          ts, issuer, zeros, (Members \cup c.adds) \ c.removes, c)

\* A block of the issuer and the proof of work below that declares other
\* members than those its membersChanges lead to: one more, or one less.
MiscountedContents == {"empty", "G3"}
MiscountedExtra    == "E"
MiscountedBlock(parent, c) ==
  LET members == (Members \cup c.adds) \ c.removes IN
  MkBlock(IF parent = NoBlock THEN 0 ELSE parent.number + 1,
          IF parent = NoBlock THEN NoHash ELSE parent.hash,
          IF parent = NoBlock THEN NoKey ELSE parent.issuer,
          0, "A", MaxZeros,
          IF MiscountedExtra \in members THEN members \ {MiscountedExtra}
          ELSE members \cup {MiscountedExtra}, c)

\* Received blocks vary in issuer and proof of work for the contents of
\* PowContents, in issuer for those of IssuerContents, and in content for
\* the issuer and the proof of work below.
PowContents    == {"empty", "G3"}
IssuerContents == {"JD"}
ContentIssuer  == "A"
Varied(issuer, zeros, c) ==
  \/ c.name \in PowContents
  \/ zeros = MaxZeros /\ (issuer = ContentIssuer \/ c.name \in IssuerContents)

\* A block of any number, that names the hash and the issuer of a block of
\* the highest number as its previous ones, or leaves them empty.
ChainProbe(n, parent, withHash, withIssuer) ==
  MkBlock(n, IF withHash THEN parent.hash ELSE NoHash,
          IF withIssuer THEN parent.issuer ELSE NoKey,
          0, "A", conf.powZeroMin, Members,
          CHOOSE c \in Contents : c.name = "empty")

\* Contents of the blocks received when calls may overlap.
RaceContents == {"empty", "G3", "JD", "R3"}

\* ------------------------------------------------------------------------
\* submitKeyBlock
\* ------------------------------------------------------------------------
\* done(err, block): err is "" for a block returned without error; seen
\* tells whether the block was stored already when the call was made.
NoResult == [err |-> "none", block |-> NoBlock, seen |-> FALSE]

InFlight == {p \in Procs : pc[p] # "idle"}

Completes(p, err, block, seen) ==
  /\ pc' = [pc EXCEPT ![p] = "idle"]
  /\ kb' = [kb EXCEPT ![p] = NoBlock]
  /\ newLinks' = [newLinks EXCEPT ![p] = <<>>]
  /\ lastResult' = [err |-> err, block |-> block, seen |-> seen]

\* A new call runs in the first free slot.
Callers ==
  IF lastResult # NoResult THEN {}
  ELSE {p \in Procs : pc[p] = "idle" /\ \A q \in Procs : q < p => pc[q] # "idle"}

\* The call reads the current block and validates the received one.  A
\* failed check ends the call with its error.  A valid block waits for the
\* PoW computation to stop when one is running, and starts saveBlockData
\* otherwise.

SubmitParksBeforeChecks(p, block, current) ==
  /\ p \in Callers
  /\ LET res == Validate(current, block) IN
     IF res.err # ""
     THEN /\ Completes(p, res.err, block, block \in Range(blocks))
          /\ newKeyblockCallback' = IF computationActivated
                                       /\ ~computeNextCallback
                                    THEN p ELSE newKeyblockCallback
          /\ UNCHANGED <<stores, computeNextCallback, computationActivated,
                         overlaps>>
     ELSE /\ block.number <= MaxNumber
          /\ InFlight # {} => overlaps < MaxOverlaps
          /\ overlaps' = IF InFlight # {} THEN overlaps + 1 ELSE overlaps
          /\ kb' = [kb EXCEPT ![p] = block]
          /\ newLinks' = [newLinks EXCEPT ![p] = res.newLinks]
          /\ lastResult' = NoResult
          /\ IF computationActivated /\ ~computeNextCallback
             THEN /\ newKeyblockCallback' = p
                  /\ pc' = [pc EXCEPT ![p] = "parked"]
             ELSE /\ newKeyblockCallback' = 0
                  /\ pc' = [pc EXCEPT ![p] = "save"]
          /\ UNCHANGED <<stores, computeNextCallback, computationActivated>>
  /\ UNCHANGED <<env, pubkeys, trial, gen,
                 built, sync>>

Submit(p, block, current) ==
  /\ p \in Callers
  /\ LET res == Validate(current, block) IN
     IF res.err # ""
     THEN /\ Completes(p, res.err, block, block \in Range(blocks))
          /\ UNCHANGED <<stores, flags, overlaps>>
     ELSE /\ block.number <= MaxNumber
          /\ InFlight # {} => overlaps < MaxOverlaps
          /\ overlaps' = IF InFlight # {} THEN overlaps + 1 ELSE overlaps
          /\ kb' = [kb EXCEPT ![p] = block]
          /\ newLinks' = [newLinks EXCEPT ![p] = res.newLinks]
          /\ lastResult' = NoResult
          /\ IF computationActivated /\ ~computeNextCallback
             THEN /\ newKeyblockCallback' = p
                  /\ pc' = [pc EXCEPT ![p] = "parked"]
             ELSE /\ newKeyblockCallback' = 0
                  /\ pc' = [pc EXCEPT ![p] = "save"]
          /\ UNCHANGED <<stores, computeNextCallback, computationActivated>>
  /\ UNCHANGED <<env, pubkeys, trial, gen,
                 built, sync>>

\* computeNextCallback(): the parked callback of startGeneration is run
\* with no error and no block.
ComputeNextCalled ==
  [gen EXCEPT !.resumed = @ + 1,
              !.pc = IF @ = "waiting" THEN "off" ELSE @]

\* saveBlockData: block.save
SaveBlock(p) ==
  /\ lastResult = NoResult
  /\ pc[p] = "save"
  /\ blocks' = Append(blocks, kb[p])
  /\ pc' = [pc EXCEPT ![p] = "update"]
  /\ lastResult' = NoResult
  /\ UNCHANGED <<member, kick, distanced, trusted, links, memberships,
                 pubkeys, flags, env, kb, newLinks, overlaps, trial, gen,
                 built, sync>>

\* updateMembers: addMember / removeMember, then unsetKicked
UpdateMembersAddingOnly(block, flag) ==
  [k \in Keys |-> IF k \in Adds(block) THEN TRUE ELSE flag[k]]

UpdateMembers(block, flag) ==
  [k \in Keys |-> IF k \in Adds(block) THEN TRUE
                  ELSE IF k \in Removes(block) THEN FALSE
                  ELSE flag[k]]

UnsetKicked(block, flag) ==
  [k \in Keys |-> IF k \in Adds(block) \cup Removes(block) THEN FALSE
                  ELSE flag[k]]

\* Fingerprints of the keychanges of a type.
KeychangesOf(block, type) ==
  {block.keysChanges[i].fingerprint :
     i \in {j \in DOMAIN block.keysChanges :
              block.keysChanges[j].type = type}}

\* Fingerprints of the memberships carried by the block's keychanges.
MembershipsOf(block) ==
  {block.keysChanges[i].fingerprint :
     i \in {j \in DOMAIN block.keysChanges :
              block.keysChanges[j].membership # "none"}}

\* The links of a newLinks map, as saved: target by target.
RECURSIVE LinksOf(_, _)
LinksOf(nl, timestamp) ==
  IF nl = <<>> THEN <<>>
  ELSE [i \in DOMAIN nl[1].certifiers |->
          [source |-> nl[1].certifiers[i], target |-> nl[1].target,
           timestamp |-> timestamp, obsolete |-> FALSE]]
       \o LinksOf(Tail(nl), timestamp)

\* saveBlockData, from the update of the members to the removal of the
\* pending memberships.  The update of a key that has no trusted key
\* fails: the call ends with that error, once the block, the members and
\* the new trusted keys are saved.
UpdateData(p) ==
  /\ lastResult = NoResult
  /\ pc[p] = "update"
  /\ member' = UpdateMembers(kb[p], member)
  /\ kick' = UnsetKicked(kb[p], kick)
  /\ trusted' = trusted \cup KeychangesOf(kb[p], "N")
  /\ pubkeys' = pubkeys \cup KeychangesOf(kb[p], "N")
  /\ IF \E fpr \in KeychangesOf(kb[p], "U") : ~IsTrusted(trusted', fpr)
     THEN /\ Completes(p, "TrustedKeyNotFound", kb[p], FALSE)
          /\ UNCHANGED <<links, memberships>>
     ELSE /\ links' = links \o LinksOf(newLinks[p], kb[p].timestamp)
          /\ memberships' =
               SelectSeq(memberships,
                         LAMBDA ms : ms.issuer \notin MembershipsOf(kb[p]))
          /\ pc' = [pc EXCEPT ![p] = "obsolete"]
          /\ lastResult' = NoResult
          /\ UNCHANGED <<kb, newLinks>>
  /\ UNCHANGED <<blocks, distanced, flags, env, overlaps, trial, gen,
                 built, sync>>

\* Link.obsoletes: the links older than the limit become obsolete.
Obsoletes(lnks, limit) ==
  [i \in DOMAIN lnks |->
     IF lnks[i].timestamp < limit THEN [lnks[i] EXCEPT !.obsolete = TRUE]
     ELSE lnks[i]]

\* computeObsoleteLinks: Key.setKicked of every member with the members
\* that are over 3 steps from it and whether it lacks links.
SetDistanced(lnks) ==
  [k \in Keys |-> IF member[k] THEN IsOver3StepsOfAMember(lnks, k, Members)
                  ELSE distanced[k]]

SetKicked(lnks) ==
  [k \in Keys |->
     IF member[k]
     THEN \/ IsOver3StepsOfAMember(lnks, k, Members) # {}
          \/ CheckHaveEnoughLinks(lnks, k, <<>>)
     ELSE kick[k]]

\* End of saveBlockData (computeObsoleteLinks; updateAvailableKeyMaterial
\* changes none of the stores above) and of submitKeyBlock: a waiting PoW
\* computation is started again and the call returns the block.
ComputeObsolete(p) ==
  /\ lastResult = NoResult
  /\ pc[p] = "obsolete"
  /\ links' = Obsoletes(links, kb[p].timestamp - conf.sigValidity)
  /\ distanced' = SetDistanced(links')
  /\ kick' = SetKicked(links')
  /\ computeNextCallback' = FALSE
  /\ gen' = IF computeNextCallback THEN ComputeNextCalled ELSE gen
  /\ Completes(p, "", kb[p], FALSE)
  /\ UNCHANGED <<blocks, member, trusted, memberships, pubkeys,
                 newKeyblockCallback,
                 computationActivated, env, overlaps, trial,
                 built, sync>>

\* The clock of the node advances.
Tick ==
  /\ lastResult = NoResult
  /\ now < MaxNow
  /\ now' = now + 1
  /\ UNCHANGED <<conf, checkWithLocalTimestamp, stores, pubkeys, flags, pc,
                 kb, newLinks, lastResult, overlaps, trial, gen,
                 built, sync>>

\* The callback of a call has been run with its outcome.
Return ==
  /\ lastResult # NoResult
  /\ lastResult' = NoResult
  /\ UNCHANGED <<env, stores, pubkeys, flags, pc, kb, newLinks, overlaps,
                 trial, gen,
                 built, sync>>

\* Fingerprints sort in the order of KeyOrder.
KeyOrder == <<"A", "B", "C", "D", "E">>
Rank(k) == CHOOSE i \in DOMAIN KeyOrder : KeyOrder[i] = k
Sorted(fprs) == SortSeq(fprs, LAMBDA a, b : Rank(a) < Rank(b))

\* ------------------------------------------------------------------------
\* The membership service of the amendments: createNext
\* ------------------------------------------------------------------------
MaxSigDate == 1           \* highest signature date of a membership request
VotingStart == 1          \* conf.sync.votingStart
VotingFrequence == 1      \* conf.sync.votingFrequence
ActualizeFrequence == 1   \* conf.sync.ActualizeFrequence

\* No promoted amendment, no membership, no outcome of submit.
NoAm == [number |-> -1, generated |-> 0]
NoMs == [issuer |-> NoKey, membership |-> "none", hash |-> 0, sigDate |-> 0,
         amNumber |-> -1, eligible |-> FALSE, current |-> FALSE]
NoRes == [err |-> "none", entry |-> NoMs, current |-> NoMs]

\* getExclusionDate: the date before which a JOIN or an ACTUALIZE is too old
\* for the proposed amendment.
GetExclusionDate(amNext) == amNext.generated - ActualizeFrequence

\* Array.sort on membersChanges: "+FPR" sorts before "-FPR", then by
\* fingerprint.
ChangeRank(c) == (IF c[1] = "+" THEN 0 ELSE Len(KeyOrder)) + Rank(c[2])
SortChanges(changes) ==
  SortSeq(changes, LAMBDA a, b : ChangeRank(a) < ChangeRank(b))

\* Membership.getCurrentJoinOrActuOlderThan: the current memberships that
\* are a JOIN or an ACTUALIZE signed before the date.
GetCurrentJoinOrActuOlderThan(mss, date) ==
  SelectSeq(mss, LAMBDA ms : /\ ms.current
                             /\ ms.membership \in {"JOIN", "ACTUALIZE"}
                             /\ ms.sigDate < date)

\* createNext: the members written for the proposed amendment are those of
\* the promoted one without the members whose membership is too old.
ProposedLeaves(am, mss, leaves) ==
  LET generated == IF am # NoAm THEN am.generated + VotingFrequence
                   ELSE VotingStart
      excluded == GetCurrentJoinOrActuOlderThan(
                    mss, GetExclusionDate([generated |-> generated]))
  IN (IF am # NoAm THEN leaves ELSE {})
       \ {excluded[i].issuer : i \in DOMAIN excluded}

\* createNext: the amendment proposed after am (NoAm: the root amendment).
CreateNext(am, mss, leaves) ==
  LET generated == IF am # NoAm THEN am.generated + VotingFrequence
                   ELSE VotingStart
      excluded == GetCurrentJoinOrActuOlderThan(
                    mss, GetExclusionDate([generated |-> generated]))
  IN [number |-> IF am # NoAm THEN am.number + 1 ELSE 0,
      generated |-> generated,
      membersChanges |->
        SortChanges([i \in DOMAIN excluded |-> <<"-", excluded[i].issuer>>]),
      membersRoot |-> MerkleRoot(ProposedLeaves(am, mss, leaves)),
      membersCount |-> Cardinality(ProposedLeaves(am, mss, leaves))]

\* The stores of the service once createNext has proposed the amendment that
\* follows am: the promoted amendment, the memberships, the amendment to be
\* voted and the members written for it.
SyncStore(am, mss, leaves) ==
  [am |-> am, mss |-> mss, amNext |-> CreateNext(am, mss, leaves),
   merkle |-> ProposedLeaves(am, mss, leaves), res |-> NoRes]

\* No call of the block builder has been made.
NoBuilt == [op |-> "none"]

\* No PoW computation has been started.
NoGen == [pc |-> "off", runs |-> 0, called |-> 0, resumed |-> 0,
          signed |-> FALSE]

\* No call of getTrialLevel on its own.
NoTrial == [last |-> NoBlock, nextBlockNumber |-> 0, currentWoTsize |-> 0,
            nbZeros |-> -1]

InitStores ==
  /\ now = 0
  /\ checkWithLocalTimestamp = TRUE
  /\ blocks = <<>>
  /\ member = [k \in Keys |-> FALSE]
  /\ kick = [k \in Keys |-> FALSE]
  /\ distanced = [k \in Keys |-> {}]
  /\ trusted = {}
  /\ links = <<>>
  /\ memberships = <<>>
  /\ pubkeys \in {Keys, Keys \ {"D"}}
  /\ newKeyblockCallback = 0
  /\ computeNextCallback = FALSE
  /\ computationActivated = FALSE
  /\ pc = [p \in Procs |-> "idle"]
  /\ kb = [p \in Procs |-> NoBlock]
  /\ newLinks = [p \in Procs |-> <<>>]
  /\ overlaps = 0
  /\ lastResult = NoResult
  /\ gen = NoGen
  /\ built = NoBuilt

InitChain ==
  /\ conf \in Confs
  /\ trial = NoTrial
  /\ InitStores

\* A node without amendment: createNext has proposed the root amendment.
Init ==
  /\ InitChain
  /\ sync = SyncStore(NoAm, <<>>, {})

\* Steps of the calls in flight, of the clock and of the callbacks.
Steps ==
  \/ \E p \in Procs : SaveBlock(p)
  \/ \E p \in Procs : UpdateData(p)
  \/ \E p \in Procs : ComputeObsolete(p)
  \/ Return

\* Calls made one at a time: a call is made when no other is in flight.
SeqCallers == IF InFlight = {} THEN Callers ELSE {}

Next ==
  \/ \E p \in SeqCallers : \E current \in Currents : \E parent \in Currents :
       \E ts \in Timestamps : \E issuer \in Issuers :
         \E zeros \in 0..MaxZeros :
           \E c \in {x \in Contents : Varied(issuer, zeros, x)} :
             Submit(p, ContentBlock(parent, ts, issuer, zeros, c), current)
  \/ \E p \in SeqCallers : \E current \in Currents : \E parent \in Currents :
       \E n \in 0..(MaxNumber + 1) : \E withHash, withIssuer \in BOOLEAN :
         Submit(p, ChainProbe(n, parent, withHash, withIssuer), current)
  \/ \E p \in SeqCallers : \E current \in Currents : \E parent \in Currents :
       \E c \in {x \in Contents : x.name \in MiscountedContents} :
         Submit(p, MiscountedBlock(parent, c), current)
  \/ \E p \in SeqCallers : \E current \in Currents :
       \E block \in Range(blocks) : Submit(p, block, current)
  \/ Steps
  \/ Tick

Spec == Init /\ [][Next]_vars

\* Calls that may overlap: a call may be made while another is in flight.
NextRace ==
  \/ \E p \in Callers : \E current \in Currents : \E parent \in Currents :
       \E zeros \in {conf.powZeroMin, MaxZeros} :
         \E c \in {x \in Contents : x.name \in RaceContents} :
           Submit(p, ContentBlock(parent, now, ContentIssuer, zeros, c),
                  current)
  \/ \E p \in Callers : \E current \in Currents :
       \E block \in Range(blocks) : Submit(p, block, current)
  \/ Steps

SpecRace == Init /\ [][NextRace]_vars

\* Storage operations that fail.  block.save calls back with its error and
\* stores nothing: saveBlockData stops and the call returns the error.
SaveFails(p) ==
  /\ lastResult = NoResult
  /\ pc[p] = "save"
  /\ Completes(p, "StorageError", kb[p], FALSE)
  /\ UNCHANGED <<stores, pubkeys, flags, env, overlaps, trial, gen,
                 built, sync>>

\* A write that follows block.save fails (Key.addMember, trusted.save,
\* lnk.save, ...): saveBlockData stops and the call returns the error.
UpdateFails(p) ==
  /\ lastResult = NoResult
  /\ pc[p] = "update"
  /\ Completes(p, "StorageError", kb[p], FALSE)
  /\ UNCHANGED <<stores, pubkeys, flags, env, overlaps, trial, gen,
                 built, sync>>

\* KeyBlock.current calls back with an error and no block while a block is
\* stored: the call goes on with current = null.
SubmitOnFailedRead(p, block) ==
  /\ blocks # <<>>
  /\ Len(blocks) < MaxStored
  /\ Submit(p, block, NoBlock)

\* Calls made one at a time on a storage that may fail.
FaultContents == {"empty", "G3", "JD"}

NextFaults ==
  \/ \E p \in SeqCallers : \E current \in Currents : \E parent \in Currents :
       \E zeros \in {conf.powZeroMin, MaxZeros} :
         \E c \in {x \in Contents : x.name \in FaultContents} :
           Submit(p, ContentBlock(parent, now, ContentIssuer, zeros, c),
                  current)
  \/ \E p \in SeqCallers : \E zeros \in {conf.powZeroMin, MaxZeros} :
       \E c \in {x \in Contents : x.name \in FaultContents} :
         SubmitOnFailedRead(p, ContentBlock(NoBlock, now, ContentIssuer,
                                            zeros, c))
  \/ \E p \in Procs : SaveFails(p)
  \/ \E p \in Procs : UpdateFails(p)
  \/ Steps

SpecFaults == Init /\ [][NextFaults]_vars

\* The PoW computation.  startGeneration raises computationActivated and
\* reads the current block (a node that participates: conf.participate).
MaxRuns == 1

powRest == <<env, stores, pubkeys, kb, newLinks, lastResult, overlaps, trial,
            built, sync>>

StartGeneration ==
  /\ lastResult = NoResult
  /\ gen.pc = "off"
  /\ gen.runs < MaxRuns
  /\ computationActivated' = TRUE
  /\ gen' = [pc |-> "reading", runs |-> gen.runs + 1, called |-> 0,
             resumed |-> 0, signed |-> FALSE]
  /\ UNCHANGED <<powRest, newKeyblockCallback, computeNextCallback, pc>>

\* KeyBlock.current has called back.  Without a root block the computation
\* waits: its callback is parked in computeNextCallback.  With a current
\* block the next block is generated and prove starts on it.
GenerationReads ==
  /\ lastResult = NoResult
  /\ gen.pc = "reading"
  /\ IF blocks = <<>>
     THEN /\ computeNextCallback' = TRUE
          /\ computationActivated' = FALSE
          /\ gen' = [gen EXCEPT !.pc = "waiting"]
     ELSE /\ gen' = [gen EXCEPT !.pc = "proving"]
          /\ UNCHANGED <<computeNextCallback, computationActivated>>
  /\ UNCHANGED <<powRest, newKeyblockCallback, pc>>

\* prove, an attempt whose count is 50, 150, ... while a submitKeyBlock is
\* parked: next('New block received') ends the loop with the error, the
\* callback of prove parks the callback of startGeneration, and the parked
\* submitKeyBlock goes on.  next() is then called a second time: the loop
\* tests the hash again, and either ends a second time with the signed
\* block (found) or goes on with further attempts.
ProveCancelled(found) ==
  /\ lastResult = NoResult
  /\ gen.pc = "proving"
  /\ newKeyblockCallback # 0
  /\ computationActivated' = FALSE
  /\ computeNextCallback' = TRUE
  /\ pc' = [pc EXCEPT ![newKeyblockCallback] = "save"]
  /\ newKeyblockCallback' = 0
  /\ gen' = IF found
            THEN [gen EXCEPT !.pc = "off", !.called = @ + 2,
                             !.resumed = @ + 1, !.signed = TRUE]
            ELSE [gen EXCEPT !.pc = "cancelled", !.called = @ + 1]
  /\ UNCHANGED powRest

\* prove, an attempt that finds a hash of the level asked for, at a count
\* where the cancel flag is not read or with no submitKeyBlock parked: the
\* block is signed and handed to the callback of startGeneration.
ProveFound ==
  /\ lastResult = NoResult
  /\ gen.pc = "proving"
  /\ computationActivated' = FALSE
  /\ gen' = [gen EXCEPT !.pc = "off", !.called = @ + 1, !.resumed = @ + 1,
                        !.signed = TRUE]
  /\ UNCHANGED <<powRest, newKeyblockCallback, computeNextCallback, pc>>

\* prove, the loop that went on after a cancellation finds a hash.
ProveFoundAfterCancel ==
  /\ lastResult = NoResult
  /\ gen.pc = "cancelled"
  /\ computationActivated' = FALSE
  /\ gen' = [gen EXCEPT !.pc = "off", !.called = @ + 1, !.resumed = @ + 1,
                        !.signed = TRUE]
  /\ UNCHANGED <<powRest, newKeyblockCallback, computeNextCallback, pc>>

\* Blocks are received while the node computes.
NextPow ==
  \/ \E p \in Callers : \E current \in Currents : \E parent \in Currents :
       \E zeros \in {conf.powZeroMin, MaxZeros} :
         \E c \in {x \in Contents : x.name \in PowContents} :
           Submit(p, ContentBlock(parent, now, ContentIssuer, zeros, c),
                  current)
  \/ StartGeneration
  \/ GenerationReads
  \/ \E found \in BOOLEAN : ProveCancelled(found)
  \/ ProveFound
  \/ ProveFoundAfterCancel
  \/ Steps

SpecPow == Init /\ [][NextPow]_vars

\* Blocks are received while the node computes: the blocks that follow the
\* current one and blocks that fail the check of the timestamp, of the
\* proof-of-work, of the issuer or of the coherence.
RefusedBlocks(current) ==
  LET c(name) == CHOOSE x \in Contents : x.name = name IN
  { ContentBlock(current, MaxTime, ContentIssuer, MaxZeros, c("empty")),
    ContentBlock(current, now, ContentIssuer, 0, c("empty")),
    ContentBlock(current, now, "E", MaxZeros, c("empty")),
    ContentBlock(current, now, ContentIssuer, MaxZeros, c("JD1")) }

NextCancel ==
  \/ \E p \in Callers : \E current \in Currents : \E parent \in Currents :
       \E c \in {x \in Contents : x.name \in PowContents} :
         Submit(p, ContentBlock(parent, now, ContentIssuer, MaxZeros, c),
                current)
  \/ \E p \in Callers : \E current \in Currents :
       \E block \in RefusedBlocks(current) :
         /\ Validate(current, block).err # ""
         /\ Submit(p, block, current)
  \/ StartGeneration
  \/ GenerationReads
  \/ \E found \in BOOLEAN : ProveCancelled(found)
  \/ ProveFound
  \/ ProveFoundAfterCancel
  \/ Steps

SpecCancel == Init /\ [][NextCancel]_vars

\* createNewcomerBlock without join data and without updates: the block
\* that follows current, for the members handed to it, with no membersChanges
\* and no keysChanges.  The timestamp and the hash are those prove gives to
\* the block, the issuer is the key that signs it.
CreateNewcomerBlock(current, members, ts, issuer, zeros) ==
  MkBlock(current.number + 1, current.hash, current.issuer, ts, issuer,
          zeros, members, CHOOSE c \in Contents : c.name = "empty")

\* generateNext with no eligible membership and no update found: findNewcomers
\* hands the members of Key.getMembers to createNewcomerBlock.
GenerateNext(current, ts, issuer, zeros) ==
  CreateNewcomerBlock(current, Members, ts, issuer, zeros)

\* The membership pool.  A received membership: its issuer, IN or OUT, the
\* hash of the document and its date.  The
\* stored public key of the keys of NoUdid2 has a user id that is no valid
\* udid2.
NoUdid2 == {"E"}
MaxDate == 1
MsIssuers == {"A", "D"}
MsHashes  == {1, 2}
Entries ==
  [issuer : MsIssuers, membership : {"IN", "OUT"}, hash : MsHashes,
   date : 0..MaxDate]
    \cup [issuer : NoUdid2, membership : {"IN", "OUT"}, hash : {1},
          date : {0}]

\* Membership.getForHashAndIssuer: the stored memberships of the hash and
\* the issuer, in order of save.
GetForHashAndIssuer(pool, hash, issuer) ==
  SelectSeq(pool, LAMBDA ms : ms.hash = hash /\ ms.issuer = issuer)

\* Membership.removeEligible: the pending memberships of the issuer are
\* deleted.
KeepsEligible(pool, issuer) == pool

RemoveEligible(pool, issuer) ==
  SelectSeq(pool, LAMBDA ms : ms.issuer # issuer)

\* The keys flagged as being in the keychain (pubkey.keychain): the keys a
\* stored block has brought in.
InKeychain(fpr) == fpr \in trusted

\* hasEligiblePubkey ("" when the key is eligible): the public key is read,
\* and is eligible when it is in the keychain or has a valid udid2.
HasEligiblePubkey(fpr) ==
  IF ~HasPubkey(pubkeys, fpr) THEN "PubkeyNotFound"
  ELSE IF InKeychain(fpr) THEN ""
  ELSE IF fpr \notin NoUdid2 THEN ""
  ELSE "NeedsEligiblePubkey"

\* The tests of submitMembership before the pool is written ("" when they
\* pass): an older membership than the stored one, a member that joins, a
\* non-member that leaves, a newcomer without an eligible public key.
CheckMembershipOfAnyKey(entry) ==
  LET entries == GetForHashAndIssuer(memberships, entry.hash, entry.issuer)
  IN IF Len(entries) > 0 /\ entries[1].date > entry.date
     THEN "AlreadyReceived"
     ELSE ""

CheckMembership(entry) ==
  LET entries == GetForHashAndIssuer(memberships, entry.hash, entry.issuer)
      isMember == member[entry.issuer]
      isJoin == entry.membership = "IN"
  IN IF Len(entries) > 0 /\ entries[1].date > entry.date
     THEN "AlreadyReceived"
     ELSE IF ~isMember /\ isJoin
     THEN HasEligiblePubkey(entry.issuer)
     ELSE IF isMember /\ ~isJoin THEN ""
     ELSE IF isJoin THEN "MemberCannotJoin"
     ELSE "NonMemberCannotLeave"

\* The outcome handed to the callback of submitMembership; seen tells
\* whether the same membership was stored when the call was made.
MembershipResult(err, entry) ==
  [err |-> err, block |-> NoBlock, seen |-> entry \in Range(memberships),
   entry |-> entry]

msRest == <<conf, now, checkWithLocalTimestamp, blocks, member, kick,
            distanced, trusted, links, pubkeys, flags, pc, kb, newLinks,
            overlaps, trial, gen,
                 built, sync>>

\* submitMembership: the tests, then the pending memberships of the issuer
\* are removed and the entry is saved.
SubmitMembership(entry) ==
  /\ lastResult = NoResult
  /\ InFlight = {}
  /\ lastResult' = MembershipResult(CheckMembership(entry), entry)
  /\ memberships' =
       IF CheckMembership(entry) # "" THEN memberships
       ELSE Append(RemoveEligible(memberships, entry.issuer), entry)
  /\ UNCHANGED msRest

\* submitMembership, entry.save calls back with an error: the pending
\* memberships of the issuer have been removed, and the error is returned.
SubmitMembershipSaveFails(entry) ==
  /\ lastResult = NoResult
  /\ InFlight = {}
  /\ CheckMembership(entry) = ""
  /\ lastResult' = MembershipResult("StorageError", entry)
  /\ memberships' = RemoveEligible(memberships, entry.issuer)
  /\ UNCHANGED msRest

\* submitMembership, a query made before entry.save calls back with an
\* error: the error is returned.
SubmitMembershipQueryFails(entry) ==
  /\ lastResult = NoResult
  /\ InFlight = {}
  /\ lastResult' = MembershipResult("StorageError", entry)
  /\ UNCHANGED <<msRest, memberships>>

\* Memberships and blocks are received one at a time.
PoolContents == {"G3", "JD", "XABC", "PA"}

NextPool ==
  \/ \E p \in SeqCallers : \E current \in Currents : \E parent \in Currents :
       \E c \in {x \in Contents : x.name \in PoolContents} :
         Submit(p, ContentBlock(parent, now, ContentIssuer, MaxZeros, c),
                current)
  \/ \E entry \in Entries : SubmitMembership(entry)
  \/ \E entry \in Entries : SubmitMembershipSaveFails(entry)
  \/ \E entry \in Entries : SubmitMembershipQueryFails(entry)
  \/ Steps

SpecPool == Init /\ [][NextPool]_vars

\* Blocks received one at a time on a node whose checkWithLocalTimestamp is
\* set by its owner: blocks of a member with any timestamp, and blocks of a
\* key that is no member with any number, chaining, timestamp and proof of
\* work.
SetCheckWithLocalTimestamp(v) ==
  /\ lastResult = NoResult
  /\ InFlight = {}
  /\ checkWithLocalTimestamp # v
  /\ checkWithLocalTimestamp' = v
  /\ UNCHANGED <<conf, now, stores, pubkeys, flags, pc, kb, newLinks,
                 lastResult, overlaps, trial, gen,
                 built, sync>>

ProbeIssuer == "E"

TimedProbe(n, parent, withHash, withIssuer, ts, zeros) ==
  MkBlock(n, IF withHash THEN parent.hash ELSE NoHash,
          IF withIssuer THEN parent.issuer ELSE NoKey,
          ts, ProbeIssuer, zeros, Members,
          CHOOSE c \in Contents : c.name = "empty")

ChainContents == {"empty", "G3"}

NextChain ==
  \/ \E p \in SeqCallers : \E current \in Currents : \E parent \in Currents :
       \E ts \in 0..MaxTime :
         \E c \in {x \in Contents : x.name \in ChainContents} :
           Submit(p, ContentBlock(parent, ts, ContentIssuer, MaxZeros, c),
                  current)
  \/ \E p \in SeqCallers : \E current \in Currents : \E parent \in Currents :
       \E n \in 0..(MaxNumber + 1) : \E withHash, withIssuer \in BOOLEAN :
         \E ts \in 0..MaxTime : \E zeros \in {0, conf.powZeroMin, MaxZeros} :
           Submit(p, TimedProbe(n, parent, withHash, withIssuer, ts, zeros),
                  current)
  \/ \E v \in BOOLEAN : SetCheckWithLocalTimestamp(v)
  \/ Steps
  \/ Tick

SpecChain == Init /\ [][NextChain]_vars

\* Blocks whose keychanges name a fingerprint or a certifier more than once,
\* received one at a time.
LinkContents ==
  { \* D joins certified by A, and is updated with certifications of B and C
    [name |-> "JDU", adds |-> {"D"}, removes |-> {},
     keysChanges |-> << KcN("D", <<"A">>), KcU("D", <<"B", "C">>),
                        KcU("A", <<"D">>) >>],
    \* the same keychanges, the UPDATE of D first
    [name |-> "UJD", adds |-> {"D"}, removes |-> {},
     keysChanges |-> << KcU("D", <<"B", "C">>), KcN("D", <<"A">>),
                        KcU("A", <<"D">>) >>],
    \* two NEWCOMER keychanges of D, the one with a single certification last
    [name |-> "JD21", adds |-> {"D"}, removes |-> {},
     keysChanges |-> << KcN("D", <<"A", "B">>), KcN("D", <<"A">>),
                        KcU("A", <<"D">>) >>],
    \* the same keychanges, the one with a single certification first
    [name |-> "JD12", adds |-> {"D"}, removes |-> {},
     keysChanges |-> << KcN("D", <<"A">>), KcN("D", <<"A", "B">>),
                        KcU("A", <<"D">>) >>],
    \* D joins with two certifications of the same certifier
    [name |-> "JDAA", adds |-> {"D"}, removes |-> {},
     keysChanges |-> << KcN("D", <<"A", "A">>), KcU("A", <<"D">>) >>] }

LinkBlocks ==
  LinkContents \cup {x \in Contents : x.name \in {"empty", "G3", "JD"}}

NextLinks ==
  \/ \E p \in SeqCallers : \E current \in Currents : \E parent \in Currents :
       \E c \in LinkBlocks :
         Submit(p, ContentBlock(parent, now, ContentIssuer, MaxZeros, c),
                current)
  \/ Steps
  \/ Tick

SpecLinks == Init /\ [][NextLinks]_vars

\* The block builder.
\* The sequences that list the keys of a set once each, in any order: the
\* answers Key.getMembers may give.
Listings(set) ==
  {order \in [1..Cardinality(set) -> set] :
     \A i, j \in DOMAIN order : i # j => order[i] # order[j]}

\* createNextEmptyBlock: the block that follows current, whose members are
\* the stayers and whose membersChanges are the "-FPR" of the leavers,
\* sorted.
CreateNextEmptyBlockCountingAll(current, members, leaving) ==
  [number |-> current.number + 1,
   previousHash |-> current.hash,
   previousIssuer |-> current.issuer,
   membersCount |-> Len(members) + Len(leaving),
   membersRoot |-> MerkleRoot(Range(Sorted(members))),
   membersChanges |-> [i \in DOMAIN leaving |-> <<"-", Sorted(leaving)[i]>>],
   keysChanges |-> <<>>]

CreateNextEmptyBlock(current, members, leaving) ==
  [number |-> current.number + 1,
   previousHash |-> current.hash,
   previousIssuer |-> current.issuer,
   membersCount |-> Len(members),
   membersRoot |-> MerkleRoot(Range(Sorted(members))),
   membersChanges |-> [i \in DOMAIN leaving |-> <<"-", Sorted(leaving)[i]>>],
   keysChanges |-> <<>>]

builtRest == <<conf, now, checkWithLocalTimestamp, stores, pubkeys, flags, pc,
               kb, newLinks, lastResult, overlaps, trial, gen, sync>>

\* generateEmptyNext: KeyBlock.current calls back with an error when no
\* block is stored; the members that Key.getMembers lists are split on
\* their kick flag.
GenerateEmptyNext(memberKeys) ==
  /\ lastResult = NoResult
  /\ InFlight = {}
  /\ built' =
       IF blocks = <<>>
       THEN [op |-> "generateEmptyNext", err |-> "NoRootBlock"]
       ELSE [op |-> "generateEmptyNext", err |-> "",
             current |-> CHOOSE b \in Currents : TRUE,
             block |-> CreateNextEmptyBlock(
                         CHOOSE b \in Currents : TRUE,
                         SelectSeq(memberKeys, LAMBDA k : ~kick[k]),
                         SelectSeq(memberKeys, LAMBDA k : kick[k]))]
  /\ UNCHANGED builtRest

\* Newcomers found in the pool: for each, the issuers of the certifications
\* of its key (certs) and the members whose key it has certified (signs).
JoinDatas ==
  { [k \in {"D", "E"} |->
       IF k = "D" THEN [certs |-> <<"A", "B">>, signs |-> {"A"}]
       ELSE [certs |-> <<"D", "A">>, signs |-> {"B"}]],
    [k \in {"D", "E"} |->
       IF k = "D" THEN [certs |-> <<"A">>, signs |-> {"A"}]
       ELSE [certs |-> <<"A", "B">>, signs |-> {}]],
    [k \in {"D"} |-> [certs |-> <<"B", "C">>, signs |-> {"C"}]] }

\* computeNewLinks: for each newcomer the issuers of its certifications that
\* are among the members handed over, and for each signed member the
\* newcomers that have certified it.
ComputeNewLinks(theNewcomers, joinData, members) ==
  LET signed == {m \in Members :
                   \E i \in DOMAIN theNewcomers :
                     m \in joinData[theNewcomers[i]].signs}
      signedSeq == Sorted(CHOOSE o \in Listings(signed) : TRUE)
  IN [i \in DOMAIN theNewcomers |->
        [target |-> theNewcomers[i],
         certifiers |-> SelectSeq(joinData[theNewcomers[i]].certs,
                                  LAMBDA c : c \in members)]]
     \o [i \in DOMAIN signedSeq |->
           [target |-> signedSeq[i],
            certifiers |-> SelectSeq(theNewcomers,
                             LAMBDA n : signedSeq[i] \in joinData[n].signs)]]

\* findNewcomers, the check handed to checkingWoTFunc: checkWoTStability on
\* the block of the next number that adds theNewcomers, with their links.
CheckWoTForNewcomers(theNewcomers, joinData) ==
  CheckWoTStability(
    [number |-> TopNumber + 1,
     membersChanges |-> {<<"+", theNewcomers[i]>> : i \in DOMAIN theNewcomers}],
    ComputeNewLinks(theNewcomers, joinData,
                    Members \cup Range(theNewcomers)))

\* iteratedChecking: each newcomer is checked with those that passed.
RECURSIVE IteratedCheckingAloneFrom(_, _, _, _)
IteratedCheckingAloneFrom(newcomers, joinData, i, passingNewcomers) ==
  IF i > Len(newcomers) THEN passingNewcomers
  ELSE IF CheckWoTForNewcomers(<<newcomers[i]>>, joinData) = ""
  THEN IteratedCheckingAloneFrom(newcomers, joinData, i + 1,
                                 Append(passingNewcomers, newcomers[i]))
  ELSE IteratedCheckingAloneFrom(newcomers, joinData, i + 1, passingNewcomers)

RECURSIVE IteratedCheckingFrom(_, _, _, _)
IteratedCheckingFrom(newcomers, joinData, i, passingNewcomers) ==
  IF i > Len(newcomers) THEN passingNewcomers
  ELSE IF CheckWoTForNewcomers(Append(passingNewcomers, newcomers[i]),
                               joinData) = ""
  THEN IteratedCheckingFrom(newcomers, joinData, i + 1,
                            Append(passingNewcomers, newcomers[i]))
  ELSE IteratedCheckingFrom(newcomers, joinData, i + 1, passingNewcomers)

IteratedCheckingAlone(newcomers, joinData) ==
  IteratedCheckingAloneFrom(newcomers, joinData, 1, <<>>)

IteratedChecking(newcomers, joinData) ==
  IteratedCheckingFrom(newcomers, joinData, 1, <<>>)

\* findNewcomers with no filtering: the newcomers of joinData, in the order
\* of its keys, go through iteratedChecking.
FindNewcomers(joinData, newcomers) ==
  /\ lastResult = NoResult
  /\ InFlight = {}
  /\ DOMAIN joinData \cap Members = {}
  /\ built' = [op |-> "findNewcomers", joinData |-> joinData,
               newcomers |-> newcomers,
               realNewcomers |-> IteratedChecking(newcomers, joinData)]
  /\ UNCHANGED builtRest

\* Blocks are received one at a time and the builder is called between them.
BuildContents == {"empty", "G3", "R3", "JD"}

\* Three founders, the third with a single certification.
BuildBlocks ==
  {x \in Contents : x.name \in BuildContents}
  \cup { [name |-> "G3c", adds |-> {"A", "B", "C"}, removes |-> {},
          keysChanges |-> << KcN("A", <<"B", "C">>), KcN("B", <<"A", "C">>),
                             KcN("C", <<"A">>) >>] }

NextBuild ==
  \/ \E p \in SeqCallers : \E current \in Currents : \E parent \in Currents :
       \E ts \in Timestamps :
         \E c \in BuildBlocks :
           Submit(p, ContentBlock(parent, ts, ContentIssuer, MaxZeros, c),
                  current)
  \/ \E memberKeys \in Listings(Members) : GenerateEmptyNext(memberKeys)
  \/ \E joinData \in JoinDatas : \E newcomers \in Listings(DOMAIN joinData) :
       FindNewcomers(joinData, newcomers)
  \/ Steps
  \/ Tick

SpecBuild == Init /\ [][NextBuild]_vars

\* ------------------------------------------------------------------------
\* The membership service of the amendments: submit
\* ------------------------------------------------------------------------
Requests == {"JOIN", "ACTUALIZE", "LEAVE"}

\* A received membership request: its issuer, its type, the hash of the
\* document and the date of its signature.
SyncIssuers == {"A"}
SyncHashes == {1, 2, 3}
SyncEntries ==
  [issuer : SyncIssuers, membership : Requests, hash : SyncHashes,
   sigDate : 0..MaxSigDate]

\* Membership.getForAmendmentAndIssuer: the positions of the memberships
\* saved for the amendment and the issuer.
GetForAmendmentAndIssuer(mss, amNumber, issuer) ==
  {i \in DOMAIN mss : mss[i].amNumber = amNumber /\ mss[i].issuer = issuer}

\* The test of the request against the membership currently recorded ("" when
\* it passes).
CheckRequestOfJoinOnly(entry, current) ==
  IF entry.membership = "JOIN"
     /\ current # NoMs /\ current.membership \in {"JOIN", "ACTUALIZE"}
  THEN "AlreadyJoined"
  ELSE ""

CheckRequest(entry, current) ==
  IF entry.membership = "JOIN"
  THEN (IF current # NoMs /\ current.membership \in {"JOIN", "ACTUALIZE"}
        THEN "AlreadyJoined" ELSE "")
  ELSE IF entry.membership \in {"ACTUALIZE", "LEAVE"}
  THEN (IF current = NoMs \/ current.membership = "LEAVE"
        THEN "NotAMember" ELSE "")
  ELSE ""

\* The tests of submit before anything is saved ("" when they pass).
CheckEntry(s, pks, entry, signed, signer, verified, current) ==
  IF ~signed THEN "SignatureNotFound"
  ELSE IF ~HasPubkey(pks, signer) THEN "PubkeyNotFound"
  ELSE IF ~verified THEN "BadSignature"
  ELSE IF signer # entry.issuer THEN "FingerprintMismatch"
  ELSE IF \E i \in DOMAIN s.mss : /\ s.mss[i].issuer = entry.issuer
                                  /\ s.mss[i].hash = entry.hash
  THEN "AlreadyReceived"
  ELSE IF s.am # NoAm /\ s.am.generated > entry.sigDate THEN "TooLate"
  ELSE IF CheckRequest(entry, current) # "" THEN CheckRequest(entry, current)
  ELSE IF Cardinality(GetForAmendmentAndIssuer(s.mss, s.am.number,
                                               entry.issuer)) > 1
  THEN "MoreThanOne"
  ELSE ""

\* Array.splice at the first index of a change, when it is listed.
RemoveChange(changes, c) ==
  IF c \notin Range(changes) THEN changes
  ELSE LET i == CHOOSE j \in DOMAIN changes :
                  /\ changes[j] = c
                  /\ \A k \in DOMAIN changes : changes[k] = c => j <= k
       IN SubSeq(changes, 1, i - 1) \o SubSeq(changes, i + 1, Len(changes))

\* submit once the tests have passed: a membership already saved for the
\* amendment and the issuer is made ineligible with the new one, the entry
\* is saved, and the changes, the members and the root of the amendment to
\* be voted are updated and saved.
SaveEntry(s, entry, current) ==
  LET issuer == entry.issuer
      previous == GetForAmendmentAndIssuer(s.mss, s.am.number, issuer)
      nowIsIgnored == previous # {}
      saved == [issuer |-> issuer, membership |-> entry.membership,
                hash |-> entry.hash, sigDate |-> entry.sigDate,
                amNumber |-> s.am.number, eligible |-> ~nowIsIgnored,
                current |-> FALSE]
      changes == s.amNext.membersChanges
      isJoining == ~nowIsIgnored /\ entry.membership = "JOIN"
      isCancelled == nowIsIgnored /\ <<"+", issuer>> \in Range(changes)
      isLeaving ==
        IF ~nowIsIgnored THEN entry.membership = "LEAVE"
        ELSE /\ current # NoMs
             /\ current.membership # "LEAVE"
             /\ current.sigDate < GetExclusionDate(s.amNext)
      spliced ==
        IF nowIsIgnored
        THEN RemoveChange(RemoveChange(changes, <<"-", issuer>>),
                          <<"+", issuer>>)
        ELSE IF entry.membership = "ACTUALIZE"
        THEN RemoveChange(changes, <<"-", issuer>>)
        ELSE changes
      pushed ==
        IF isJoining THEN SortChanges(Append(spliced, <<"+", issuer>>))
        ELSE IF isLeaving THEN SortChanges(Append(spliced, <<"-", issuer>>))
        ELSE spliced
      leaves == IF isJoining THEN s.merkle \cup {issuer}
                ELSE IF isCancelled \/ isLeaving THEN s.merkle \ {issuer}
                ELSE s.merkle
      written == isJoining \/ isCancelled \/ isLeaving
  IN [am |-> s.am,
      mss |-> Append([i \in DOMAIN s.mss |->
                        IF i \in previous
                        THEN [s.mss[i] EXCEPT !.eligible = FALSE]
                        ELSE s.mss[i]], saved),
      amNext |-> [s.amNext EXCEPT
                    !.membersChanges = pushed,
                    !.membersRoot = IF written THEN MerkleRoot(leaves) ELSE @,
                    !.membersCount = IF written THEN Cardinality(leaves)
                                     ELSE @],
      merkle |-> leaves,
      res |-> [err |-> IF isCancelled THEN "Cancelled" ELSE "",
               entry |-> saved, current |-> current]]

syncRest == <<conf, now, checkWithLocalTimestamp, stores, pubkeys, flags, pc,
              kb, newLinks, lastResult, overlaps, trial, gen, built>>

\* submit: the request is signed or not, by the issuer or by another key,
\* with a signature that verifies or not; Membership.getCurrent gives a
\* membership currently recorded or none.
SyncSubmit(entry, signed, signer, verified, current) ==
  /\ sync.res = NoRes
  /\ LET err == CheckEntry(sync, pubkeys, entry, signed, signer, verified,
                           current)
     IN sync' = IF err # ""
                THEN [sync EXCEPT
                        !.res = [err |-> err,
                                 entry |-> [issuer |-> entry.issuer,
                                            membership |-> entry.membership,
                                            hash |-> entry.hash,
                                            sigDate |-> entry.sigDate,
                                            amNumber |-> -1,
                                            eligible |-> FALSE,
                                            current |-> FALSE],
                                 current |-> current]]
                ELSE SaveEntry(sync, entry, current)
  /\ UNCHANGED syncRest

\* The caller has the outcome of submit.
SyncReturn ==
  /\ sync.res # NoRes
  /\ sync' = [sync EXCEPT !.res = NoRes]
  /\ UNCHANGED syncRest

\* The memberships currently recorded.
Currently(mss) == {NoMs} \cup {ms \in Range(mss) : ms.current}

\* The stores of a node: without amendment, or with a first amendment and
\* the membership of A it has recorded.
Am0 == [number |-> 0, generated |-> VotingStart]
SyncStores ==
  {SyncStore(NoAm, <<>>, {})}
    \cup {SyncStore(Am0,
                    <<[issuer |-> "A", membership |-> m, hash |-> 1,
                       sigDate |-> d, amNumber |-> -1, eligible |-> TRUE,
                       current |-> TRUE]>>,
                    IF m = "LEAVE" THEN {} ELSE {"A"}) :
            m \in Requests, d \in 0..1}

\* submit reads conf.sync only, whose values are the definitions above.
InitSync ==
  /\ conf = CHOOSE c \in Confs : TRUE
  /\ trial = NoTrial
  /\ InitStores
  /\ sync \in SyncStores

NextSync ==
  \/ \E entry \in SyncEntries : \E signed, verified \in BOOLEAN :
       \E signer \in MsIssuers : \E current \in Currently(sync.mss) :
         SyncSubmit(entry, signed, signer, verified, current)
  \/ SyncReturn

SpecSync == InitSync /\ [][NextSync]_vars

\* getTrialLevel on its own: the configuration, the last block of the
\* issuer (a root block), the number of the next block and the size of the
\* WoT are drawn from the sets below.
TrialConfs ==
  Confs \cup
  { [sigQty |-> 2, sigValidity |-> 1, powZeroMin |-> 1, tsInterval |-> 1,
     powPeriod |-> 58, powPeriodC |-> FALSE] }
TrialSizes == {3, 4, 50}

InitTrial ==
  /\ conf \in TrialConfs
  /\ \E zeros \in 1..MaxZeros : \E n \in 1..MaxDistance :
       \E size \in TrialSizes : \E c \in {x \in Contents : x.name = "G3"} :
         trial = [last |-> MkBlock(0, NoHash, NoKey, 0, ContentIssuer, zeros,
                                   c.adds, c),
                  nextBlockNumber |-> n, currentWoTsize |-> size,
                  nbZeros |-> -1]
  /\ InitStores
  /\ sync = SyncStore(NoAm, <<>>, {})

TrialLevelCall ==
  /\ trial.nbZeros = -1
  /\ trial' = [trial EXCEPT
                 !.nbZeros = TrialLevel(conf, trial.last,
                                        trial.nextBlockNumber,
                                        trial.currentWoTsize)]
  /\ UNCHANGED <<env, stores, pubkeys, flags, pc, kb, newLinks, lastResult,
                 overlaps, gen, built, sync>>

NextTrial == TrialLevelCall

SpecTrial == InitTrial /\ [][NextTrial]_vars

TypeOK ==
  /\ now \in 0..MaxNow
  /\ pc \in [Procs -> {"idle", "parked", "save", "update", "obsolete"}]

\* ------------------------------------------------------------------------
\* Properties
\* ------------------------------------------------------------------------
\* A call has returned an error.
Failed(result) == result.err \notin {"none", ""}

\* C1: the applied chain is linked.  The first applied block has number 0,
\* and every later applied block has the number of the block applied
\* before it plus one, and names its hash and its issuer as previousHash
\* and previousIssuer.
C1_ChainLinked ==
  \A i \in DOMAIN blocks :
    IF i = 1 THEN blocks[i].number = 0
    ELSE /\ blocks[i].number = blocks[i - 1].number + 1
         /\ blocks[i].previousHash = blocks[i - 1].hash
         /\ blocks[i].previousIssuer = blocks[i - 1].issuer

\* C2: rejecting a block is a no-op.  The step that returns an error for a
\* block changes none of the stores (blocks, member, kick and distanced
\* flags, trusted keys, links, pending memberships), and a block that was
\* not stored when the call was made is not stored when the call has
\* returned an error for it.
C2_RejectedIsNoOp ==
  [][Failed(lastResult') =>
       /\ stores' = stores
       /\ ~lastResult'.seen => lastResult'.block \notin Range(blocks')]_vars

\* C3: no two different applied blocks share a number, however the calls
\* of submitKeyBlock are interleaved.
C3_NoSharedNumber ==
  \A i, j \in DOMAIN blocks :
    blocks[i] # blocks[j] => blocks[i].number # blocks[j].number

\* C4: the tip number is strictly monotone.  A block is applied on a tip
\* of a strictly lower number, and the number of the block returned by
\* current() never decreases.
C4_TipMonotone ==
  [][/\ blocks' # blocks => blocks'[Len(blocks')].number > TopNumber
     /\ TopNumber' >= TopNumber]_vars

\* C5 (as stated): a call made for a block that is already applied returns
\* the error AlreadySeen.
C5_AlreadySeen ==
  lastResult.seen => lastResult.err = "AlreadySeen"

\* C5 (amended): a call made for a block that is already applied returns
\* the error of a block that comes too late ('Too late for this block',
\* the error of any block whose number is not above the tip's) and changes
\* none of the stores.
C5_TooLate ==
  [][lastResult'.seen => lastResult'.err = "TooLate" /\ stores' = stores]_vars

\* C5: a call made for an applied block has returned that error.
C5_Witness ==
  /\ lastResult.seen
  /\ lastResult.err = "TooLate"
  /\ lastResult.block \in Range(blocks)

\* Z of a block of a number, for a last block of its issuer and a tip of
\* membersCount members, from its definition: powZeroMin when the issuer has
\* no last block, and otherwise
\*   max(powZeroMin, powZeroMin + penalty - periodsWaited)
\* with penalty = leadingZeros(last.hash) - powZeroMin + 1,
\* periodsWaited = floor((number - last.number) / P), and P = powPeriod if
\* powPeriodC, floor(powPeriod * membersCount / 100) otherwise.
ExpectedZeros(cnf, last, number, membersCount) ==
  IF last = NoBlock THEN cnf.powZeroMin
  ELSE
    LET penalty == LeadingZeros(last.hash) - cnf.powZeroMin + 1
        P == IF cnf.powPeriodC THEN cnf.powPeriod
             ELSE (cnf.powPeriod * membersCount) \div 100
        periodsWaited == (number - last.number) \div P
    IN Max(cnf.powZeroMin, cnf.powZeroMin + penalty - periodsWaited)

\* A call of submitKeyBlock has its block accepted by the validation.
Accepted(p) == pc[p] = "idle" /\ pc'[p] # "idle"

\* There is a path of at most 3 certification steps from a key to another.
Reaches(from, to, edges) == to \in Within({from}, edges, 3)

\* Number of stored links to a key that are not obsolete.
ValidLinkCount(lnks, key) ==
  Cardinality({i \in DOMAIN lnks : lnks[i].target = key /\ ~lnks[i].obsolete})

\* C6: the number of zeros required of a block (under which it is rejected,
\* and from which its proof of work is accepted) is Z.
C6_RequiredZeros ==
  trial.nbZeros # -1 =>
    trial.nbZeros = ExpectedZeros(conf, trial.last, trial.nextBlockNumber,
                                  trial.currentWoTsize)


\* C7: the issuer of an accepted block of a number above 0 is a member when
\* the block is validated, whatever its membersChanges, and the issuer of
\* an accepted block of number 0 appears as "+ISSUER" in its membersChanges.
C7_IssuerIsMember ==
  [][\A p \in Procs :
       Accepted(p) =>
         IF kb'[p].number = 0
         THEN <<"+", kb'[p].issuer>> \in kb'[p].membersChanges
         ELSE member[kb'[p].issuer]]_vars

\* C7: a block of a number above 0 is applied, and a block of a number
\* above 0 issued by a key that lists itself in membersChanges is rejected.
C7_Witness ==
  /\ \E b \in Range(blocks) : b.number > 0 /\ member[b.issuer]
  /\ lastResult.err = "NotMember"
  /\ lastResult.block.number > 0
  /\ <<"+", lastResult.block.issuer>> \in lastResult.block.membersChanges

C9_AddedAreWithin3Steps ==
  [][\A p \in Procs :
       Accepted(p) =>
         LET b == kb'[p]
             edges == ValidEdges(links) \cup NewEdges(newLinks'[p])
             after == (Members \cup Adds(b)) \ Removes(b)
         IN \A f \in Adds(b) : \A m \in after \ {f} :
              Reaches(f, m, edges) /\ Reaches(m, f, edges)]_vars

\* C9: a block of a number above 0 that adds a key to existing members
\* is applied.
C9_Witness ==
  \E b \in Range(blocks) :
    /\ b.number > 0
    /\ \E f \in Adds(b) : \E m \in Members \ Adds(b) : member[f] /\ m # f

\* C10 (as stated): after every applied block, every member has at least
\* sigQty valid links and is within 3 steps of, and from, every other
\* member.
C10_MembersAreLinked ==
  InFlight = {} =>
    \A k \in Members :
      /\ ValidLinkCount(links, k) >= conf.sigQty
      /\ \A m \in Members \ {k} :
           /\ Reaches(m, k, ValidEdges(links))
           /\ Reaches(k, m, ValidEdges(links))

\* C10, for the members that are not flagged: after every applied block,
\* every member whose kick flag is not set has at least sigQty valid links
\* and is within 3 steps from every other member (the members that lack
\* links, or that some member does not reach, are flagged to be kicked and
\* remain members until a block removes them).
C10_UnflaggedMembersAreLinked ==
  InFlight = {} =>
    \A k \in Members :
      ~kick[k] =>
        /\ ValidLinkCount(links, k) >= conf.sigQty
        /\ \A m \in Members \ {k} : Reaches(m, k, ValidEdges(links))

\* A call of submitKeyBlock made in this step has ended in the validation.
EndsInValidation == lastResult = NoResult /\ lastResult' # NoResult /\ pc' = pc

\* A flagged key still fails with the links of a block: some key of its
\* distanced set still does not reach it in 3 steps, or it still has fewer
\* than sigQty links.
StillFailing(m, nl) ==
  \/ \E d \in distanced[m] :
       ~Reaches(d, m, ValidEdges(links) \cup NewEdges(nl))
  \/ ValidLinkCount(links, m) + Len(LinksTo(nl, m)) < conf.sigQty

\* The "-FPR" entries of a block are those of the flagged keys that still
\* fail with its links.
KickedSetCorrect(block, nl) ==
  \A m \in ToBeKicked :
    <<"-", m>> \in block.membersChanges <=> StillFailing(m, nl)

\* C11: for every key with the kick flag set, a block is accepted only if
\* it has "-FPR" for the key exactly when the key still fails with the
\* links of the block; a block that omits the "-FPR" of a key that still
\* fails, or has the "-FPR" of a key that fails no more, is rejected: the
\* call returns an error of the validation.
C11_KickedSet ==
  [][/\ \A p \in Procs :
          Accepted(p) => KickedSetCorrect(kb'[p], newLinks'[p])
     /\ EndsInValidation /\ ToBeKicked # {} =>
          lastResult'.err # "Thrown"]_vars

\* The errors of the checks of chaining, timestamp, proof of work and
\* issuer.
OutsideErrors ==
  {"RequiresRoot", "TooLate", "TooEarly", "BadPrevHash", "BadPrevIssuer",
   "BadTimestamp", "NotPoW", "WrongPoWLevel", "NotRootMember", "NotMember"}

\* A block without keychanges whose membersChanges are the "-FPR" of the
\* flagged keys.
KickBlock(block) ==
  /\ block.keysChanges = <<>>
  /\ Adds(block) = {}
  /\ Removes(block) = ToBeKicked

\* C12: whenever some member has its kick flag set, the block without
\* keychanges whose membersChanges are exactly the "-FPR" of the flagged
\* members is accepted when it is correctly chained, dated, proved and
\* issued by a member: a call made for it fails with an error of those
\* checks only.
C12_KickBlockAccepted ==
  [][EndsInValidation /\ ToBeKicked # {} /\ KickBlock(lastResult'.block) =>
       lastResult'.err \in OutsideErrors]_vars

\* Fingerprints of the NEWCOMER keychanges of a block that embed a
\* membership.
NewcomerMemberships(block) ==
  {block.keysChanges[i].fingerprint :
     i \in {j \in DOMAIN block.keysChanges :
              /\ block.keysChanges[j].type = "N"
              /\ block.keysChanges[j].membership # "none"}}

\* C13: a block is accepted only if every membership embedded in a
\* NEWCOMER keychange has its "+FPR" in membersChanges and every "+FPR" of
\* membersChanges has a NEWCOMER keychange of that fingerprint in the
\* block: no applied block has a "+FPR" without its NEWCOMER keychange.
C13_MembersChangesCoherent ==
  \A b \in Range(blocks) :
    /\ NewcomerMemberships(b) \subseteq Adds(b)
    /\ Adds(b) \subseteq KeychangesOf(b, "N")

\* The membersChanges of the block of a call are applied in this step.
Applies(p) == pc[p] = "update" /\ pc'[p] # "update"

\* C14: for every applied block, each "+FPR" of membersChanges names a key
\* that was not a member before the block, and each "-FPR" names a key that
\* was a member before the block.
C14_ChangesMatchMembers ==
  [][\A p \in Procs :
       Applies(p) =>
         /\ \A f \in Adds(kb[p]) : ~member[f]
         /\ \A f \in Removes(kb[p]) : member[f]]_vars

\* The members after the first i applied blocks: the membersChanges of the
\* blocks, applied in order.
RECURSIVE MembersAfter(_)
MembersAfter(i) ==
  IF i = 0 THEN {}
  ELSE (MembersAfter(i - 1) \cup Adds(blocks[i])) \ Removes(blocks[i])

\* C15: for every applied block, membersCount is the number of members
\* after the membersChanges of the blocks up to it, and membersRoot is the
\* Merkle root of those members: a block whose membersCount or membersRoot
\* disagrees with them is not applied.
C15_CountAndRoot ==
  \A i \in DOMAIN blocks :
    /\ blocks[i].membersCount = Cardinality(MembersAfter(i))
    /\ blocks[i].membersRoot = MerkleRoot(MembersAfter(i))

\* Every keychange of a block is a NEWCOMER or an UPDATE.
OnlyNewcomersAndUpdates(block) ==
  \A i \in DOMAIN block.keysChanges :
    block.keysChanges[i].type \in {"N", "U"}

\* C16: a block with a keychange of another type than N and U (LEAVER,
\* BACK or unknown) is rejected, wherever the keychange is in keysChanges:
\* the call returns an error and changes none of the stores, and no such
\* block is accepted.
C16_OnlyNewcomersAndUpdates ==
  [][/\ \A p \in Procs :
          Accepted(p) => OnlyNewcomersAndUpdates(kb'[p])
     /\ EndsInValidation /\ ~OnlyNewcomersAndUpdates(lastResult'.block) =>
          Failed(lastResult') /\ stores' = stores]_vars

\* C16: a block #1 that adds D with valid certifications is rejected for a
\* LEAVER keychange in the last place of its keysChanges, after the
\* NEWCOMER and UPDATE keychanges.
C16_Witness ==
  /\ lastResult.err = "OnlyNU"
  /\ lastResult.block.number > 0
  /\ Len(lastResult.block.keysChanges) = 3
  /\ lastResult.block.keysChanges[3].type = "L"
  /\ lastResult.block \notin Range(blocks)

\* C17: every certifier of a keychange of an accepted block, and so the
\* source of every link stored, is a key that is a member when the block
\* is validated or a NEWCOMER of the same block: a block with a
\* certification by a non-member that is not a NEWCOMER of the block is
\* not accepted.
C17_CertifiersAreMembers ==
  [][\A p \in Procs :
       /\ Accepted(p) =>
            \A e \in NewEdges(newLinks'[p]) :
              member[e[1]] \/ e[1] \in KeychangesOf(kb'[p], "N")
       /\ Applies(p) =>
            \A i \in (Len(links) + 1)..Len(links') :
              \/ member[links'[i].source]
              \/ links'[i].source \in KeychangesOf(kb[p], "N")]_vars

\* C17: links from a member and from a NEWCOMER of their block are stored,
\* and a block is rejected for a certification by a key of the keychain
\* that is no longer a member.
C17_Witness ==
  /\ lastResult.err = "NonMemberSig"
  /\ \E i \in DOMAIN lastResult.block.keysChanges :
       \E j \in DOMAIN lastResult.block.keysChanges[i].certs :
         LET c == lastResult.block.keysChanges[i].certs[j] IN
         IsTrusted(trusted, c) /\ ~member[c]
  /\ \E i \in DOMAIN links : member[links[i].source]

RECURSIVE PairCount(_)
PairCount(nl) ==
  IF nl = <<>> THEN 0 ELSE Len(nl[1].certifiers) + PairCount(Tail(nl))

\* C19: the link store only grows.  No step removes a stored link or
\* changes its source, target or timestamp; the step that applies a block
\* adds exactly one link, of the timestamp of the block, for every (target,
\* source) pair of the newLinks of the block; a call that ends in the
\* validation adds none.
C19_LinksOnlyGrow ==
  [][/\ Len(links') >= Len(links)
     /\ \A i \in DOMAIN links :
          /\ links'[i].source = links[i].source
          /\ links'[i].target = links[i].target
          /\ links'[i].timestamp = links[i].timestamp
     /\ \A p \in Procs :
          Applies(p) =>
            /\ Len(links') = Len(links) + PairCount(newLinks[p])
            /\ \A i \in DOMAIN newLinks[p] :
                 \A j \in DOMAIN newLinks[p][i].certifiers :
                   \E k \in (Len(links) + 1)..Len(links') :
                     /\ links'[k].source = newLinks[p][i].certifiers[j]
                     /\ links'[k].target = newLinks[p][i].target
                     /\ links'[k].timestamp = kb[p].timestamp
     /\ EndsInValidation => links' = links]_vars

\* C20: after each applied block, for every member, the stored distanced
\* keys are the members that do not reach it in 3 steps of links that are
\* not obsolete, and its kick flag is set exactly when some key is
\* distanced from it or it has fewer than sigQty links that are not
\* obsolete: the flags of the members added or kept by the block are
\* computed after the membership update has cleared them.
C20_FlagsComputed ==
  InFlight = {} /\ blocks # <<>> =>
    \A m \in Members :
      /\ distanced[m]
           = {x \in Members : ~Reaches(x, m, ValidEdges(links))}
      /\ kick[m] <=> \/ distanced[m] # {}
                     \/ ValidLinkCount(links, m) < conf.sigQty

\* The stores reflect a stored block: the keys it adds are members, the
\* keys it removes are not, its NEWCOMER keys are trusted keys, and every
\* certification of its keychanges is a stored link of its timestamp.
Reflected(b) ==
  /\ \A f \in Adds(b) \ Removes(b) : member[f]
  /\ \A f \in Removes(b) \ Adds(b) : ~member[f]
  /\ KeychangesOf(b, "N") \subseteq trusted
  /\ \A i \in DOMAIN b.keysChanges : \A j \in DOMAIN b.keysChanges[i].certs :
       \E k \in DOMAIN links :
         /\ links[k].source = b.keysChanges[i].certs[j]
         /\ links[k].target = b.keysChanges[i].fingerprint
         /\ links[k].timestamp = b.timestamp

\* C21: the application of a block is atomic for readers.  In no state is
\* a block the tip (the block current() returns) while the members, the
\* trusted keys or the links are still those of the tip before it.
C21_AtomicApplication ==
  \A b \in Currents : b # NoBlock => Reflected(b)

\* C22: storage errors propagate and never leave a block applied.  A call
\* that returns an error for a block that was not stored when it was made
\* leaves the block out of the stored blocks, and a failure to read the
\* current block is not taken for an empty keychain: a block is accepted
\* only if it is chained on a current block.
C22_StorageErrors ==
  [][/\ Failed(lastResult') /\ lastResult' # lastResult
          /\ ~lastResult'.seen =>
            lastResult'.block \notin Range(blocks')
     /\ \A p \in Procs :
          Accepted(p) =>
            \E current \in Currents : CheckChaining(current, kb'[p]) = ""]_vars

\* C23: a submitKeyBlock parked by a running PoW computation is the call
\* held in newKeyblockCallback and the computation that has to cancel for it
\* (startGeneration reading the current block, or prove) is still running,
\* and the callback of startGeneration is run at most once for a run.
C23_CancelHandshake ==
  /\ \A p \in Procs :
       pc[p] = "parked" =>
         newKeyblockCallback = p /\ gen.pc \in {"reading", "proving"}
  /\ gen.resumed <= 1

\* C24: the callback of prove is run at most once for a run, and the search
\* loop makes no attempt after a cancellation.
C24_ProveCallsBackOnce ==
  /\ gen.called <= 1
  /\ gen.pc # "cancelled"

\* C25: a submitKeyBlock that waits for the PoW computation to stop waits
\* for a computation that is still active, and no call ends without its
\* callback being run (an exception thrown by a check, a check that never
\* calls back).
C25_CallsTerminate ==
  /\ \A p \in Procs : pc[p] = "parked" => computationActivated
  /\ lastResult # NoResult => lastResult.err \notin {"Thrown", "NoCallback"}

\* C26: with a tip and no call in flight, the block generateNext builds on
\* the tip, proved now by a member at its trial level or above, does not
\* fail the validation of submitKeyBlock.
C26_GeneratedBlockAccepted ==
  [][~ /\ EndsInValidation
       /\ InFlight = {}
       /\ blocks # <<>>
       /\ \E current \in Currents : \E issuer \in Members :
            \E zeros \in 0..MaxZeros :
              /\ zeros >= GetTrialLevel(issuer, current.number + 1,
                                        current.membersCount)
              /\ lastResult'.block = GenerateNext(current, now, issuer, zeros)
    ]_vars

\* A call of submitMembership has returned.
MembershipReturns ==
  /\ lastResult = NoResult
  /\ lastResult' # NoResult
  /\ "entry" \in DOMAIN lastResult'

\* C27: a submitMembership call that returns an error leaves the pool as it
\* was.
C27_FailedCallKeepsPool ==
  [][MembershipReturns /\ lastResult'.err # "" =>
       memberships' = memberships]_vars

\* C28: a membership that is stored and is submitted again with success
\* leaves the pool holding the memberships it held, with a single
\* membership of its issuer and hash.
C28_Idempotent ==
  [][MembershipReturns /\ lastResult'.err = "" /\ lastResult'.seen =>
       /\ Range(memberships') = Range(memberships)
       /\ Len(memberships') = Len(memberships)
       /\ Len(GetForHashAndIssuer(memberships', lastResult'.entry.hash,
                                  lastResult'.entry.issuer)) = 1]_vars

C28_Witness ==
  /\ lastResult # NoResult
  /\ "entry" \in DOMAIN lastResult
  /\ lastResult.err = ""
  /\ lastResult.seen
  /\ Len(memberships) > 1

\* The chaining error of a block on a tip (NoBlock: no tip), "" when the
\* block is the root block without a tip or follows the tip.
LinkageError(tip, block) ==
  IF tip = NoBlock THEN (IF block.number > 0 THEN "RequiresRoot" ELSE "")
  ELSE IF block.number <= tip.number THEN "TooLate"
  ELSE IF block.number > tip.number + 1 THEN "TooEarly"
  ELSE IF block.previousHash # tip.hash THEN "BadPrevHash"
  ELSE IF block.previousIssuer # tip.issuer THEN "BadPrevIssuer"
  ELSE ""

\* C29: a call made with no other call in flight for a block that is
\* wrongly chained on the tip ends with the chaining error of its case
\* (RequiresRoot, TooLate, TooEarly, BadPrevHash, then BadPrevIssuer),
\* whatever its timestamp, proof of work, issuer and content, and such a
\* block is never let through to saveBlockData.
C29_ChainingErrors ==
  [][InFlight = {} =>
       \A tip \in Currents :
         /\ EndsInValidation /\ "entry" \notin DOMAIN lastResult'
              /\ LinkageError(tip, lastResult'.block) # ""
              => lastResult'.err = LinkageError(tip, lastResult'.block)
         /\ \A p \in Procs :
              pc'[p] # "idle" => LinkageError(tip, kb'[p]) = ""]_vars

\* C29: a block numbered too early, whose timestamp is also out of the
\* interval, has been rejected as too early.
C29_Witness ==
  /\ lastResult # NoResult
  /\ lastResult.err = "TooEarly"
  /\ checkWithLocalTimestamp
  /\ Abs(lastResult.block.timestamp - now) > conf.tsInterval

\* C30: a call made with no other call in flight for a block that is
\* rightly chained on the tip ends with the timestamp error exactly when
\* checkWithLocalTimestamp is set and the timestamp of the block is more
\* than tsInterval away from the clock of the node, whatever its proof of
\* work; a block let through to saveBlockData is not in that case.
OutOfInterval(block) ==
  checkWithLocalTimestamp /\ Abs(block.timestamp - now) > conf.tsInterval

C30_TimestampWindow ==
  [][InFlight = {} =>
       \A tip \in Currents :
         /\ EndsInValidation /\ "entry" \notin DOMAIN lastResult'
              /\ LinkageError(tip, lastResult'.block) = ""
              => (lastResult'.err = "BadTimestamp"
                    <=> OutOfInterval(lastResult'.block))
         /\ \A p \in Procs :
              pc'[p] # "idle" => ~OutOfInterval(kb'[p])]_vars

\* C30: a block out of the interval whose hash has too few zeros has been
\* rejected for its timestamp.
C30_Witness ==
  /\ lastResult # NoResult
  /\ lastResult.err = "BadTimestamp"
  /\ LeadingZeros(lastResult.block.hash) < conf.powZeroMin

\* The certifiers of newLinks for a target, as a set.
CertifiersOf(nl, target) ==
  {LinksTo(nl, target)[i] : i \in DOMAIN LinksTo(nl, target)}

\* C31: the newLinks of a block that passed validation hold, for every
\* keychange of the block and every certification of it, the certifier as
\* a source of the keychange's fingerprint.
C31_NoCertifierLost ==
  [][\A p \in Procs :
       Accepted(p) =>
         \A i \in DOMAIN kb'[p].keysChanges :
           LET kc == kb'[p].keysChanges[i] IN
           \A j \in DOMAIN kc.certs :
             kc.certs[j] \in CertifiersOf(newLinks'[p], kc.fingerprint)]_vars

\* Two lists of keychanges that hold the same keychanges in another order.
IsPermutation(s, t) ==
  /\ Len(s) = Len(t)
  /\ \E f \in Permutations(DOMAIN s) : \A i \in DOMAIN s : t[i] = s[f[i]]

\* C32: in every state with no call in flight, two blocks on the tip that
\* differ only by the order of their keysChanges get the same decision from the validation and, when
\* it passes, the same certifiers in newLinks for every key.
C32_OrderIndependent ==
  \A current \in Currents : \A c1, c2 \in LinkBlocks :
    /\ InFlight = {}
    /\ c1.adds = c2.adds
    /\ c1.removes = c2.removes
    /\ IsPermutation(c1.keysChanges, c2.keysChanges)
    => LET r1 == Validate(current, ContentBlock(current, now, ContentIssuer,
                                                MaxZeros, c1))
           r2 == Validate(current, ContentBlock(current, now, ContentIssuer,
                                                MaxZeros, c2))
       IN /\ (r1.err = "") = (r2.err = "")
          /\ r1.err = "" =>
               \A k \in Keys :
                 CertifiersOf(r1.newLinks, k) = CertifiersOf(r2.newLinks, k)

\* Fingerprints mentioned in the membersChanges of a block.
Mentioned(block) == Adds(block) \cup Removes(block)

\* C33: the step of saveBlockData that updates the stores for a block
\* leaves in the pool the memberships of the fingerprints that the block's
\* membersChanges do not mention, and only those.
C33_PoolAfterBlock ==
  [][\A p \in Procs :
       Applies(p) /\ pc'[p] = "obsolete" =>
         memberships' =
           SelectSeq(memberships,
                     LAMBDA ms : ms.issuer \notin Mentioned(kb[p]))]_vars

\* A call of the block builder has been made.
Builds(op) == built' # built /\ built'.op = op

\* The newcomers kept among those that come before the i-th.
KeptBefore(result, i) ==
  SelectSeq(SubSeq(result.newcomers, 1, i - 1),
            LAMBDA n : n \in Range(result.realNewcomers))

\* C34: iteratedChecking keeps a newcomer exactly when checkWoTStability
\* passes for it together with the newcomers kept before it; the newcomers
\* kept are proposed ones, in the order proposed, and pass the check as a
\* whole.
C34_IteratedAdmission ==
  [][Builds("findNewcomers") =>
       LET result == built' IN
       /\ result.realNewcomers
            = SelectSeq(result.newcomers,
                        LAMBDA n : n \in Range(result.realNewcomers))
       /\ CheckWoTForNewcomers(result.realNewcomers, result.joinData) = ""
       /\ \A i \in DOMAIN result.newcomers :
            result.newcomers[i] \in Range(result.realNewcomers)
              <=> CheckWoTForNewcomers(
                    Append(KeptBefore(result, i), result.newcomers[i]),
                    result.joinData) = ""]_vars

\* C34: a call has kept a newcomer that passes only with the one kept
\* before it, and another call has rejected a newcomer.
C34_Witness ==
  /\ built.op = "findNewcomers"
  /\ \/ Len(built.realNewcomers) = 2
     \/ /\ Len(built.newcomers) = 2
        /\ Len(built.realNewcomers) = 1
        /\ built.realNewcomers[1] = built.newcomers[2]

\* C35: generateEmptyNext with a tip gives the block that follows the tip,
\* without keychanges, whose membersChanges are the "-FPR" of the members
\* flagged to be kicked, in sorted order and once each, and whose
\* membersCount is the number of members that are not flagged; without a
\* tip it gives an error.
C35_EmptyNext ==
  [][Builds("generateEmptyNext") =>
       IF blocks = <<>> THEN built'.err # ""
       ELSE LET block == built'.block IN
            /\ built'.err = ""
            /\ \E tip \in Currents :
                 /\ block.number = tip.number + 1
                 /\ block.previousHash = tip.hash
                 /\ block.previousIssuer = tip.issuer
            /\ block.keysChanges = <<>>
            /\ {block.membersChanges[i] : i \in DOMAIN block.membersChanges}
                 = {<<"-", k>> : k \in Members \cap ToBeKicked}
            /\ \A i, j \in DOMAIN block.membersChanges :
                 i < j => Rank(block.membersChanges[i][2])
                            < Rank(block.membersChanges[j][2])
            /\ block.membersCount = Cardinality(Members \ ToBeKicked)]_vars

\* C35: a call has given a block that kicks a member and keeps others.
C35_Witness ==
  /\ built.op = "generateEmptyNext"
  /\ built.err = ""
  /\ Len(built.block.membersChanges) > 0
  /\ built.block.membersCount > 0

\* A call of submitKeyBlock ends in this step with an error.
Refused == lastResult' # lastResult /\ Failed(lastResult')

\* The computation is cancelled in this step: the callback parked in
\* newKeyblockCallback is run by prove.
Cancels == gen.pc = "proving" /\ newKeyblockCallback # newKeyblockCallback'
             /\ gen'.called > gen.called

\* C36: a call of submitKeyBlock that ends with an error leaves the cancel
\* request, the flags of the computation and the computation as they were;
\* a cancel request is set only by a call whose block passes the checks
\* against the current block it has read, and the computation is cancelled
\* only for the call that has set the request, which goes on to save.
C36_OnlyValidBlockCancels ==
  [][/\ Refused => UNCHANGED <<flags, gen>>
     /\ \A p \in Procs :
          newKeyblockCallback' = p /\ newKeyblockCallback # p =>
            /\ Accepted(p)
            /\ \E current \in Currents : Validate(current, kb'[p]).err = ""
     /\ Cancels =>
          \E p \in Procs :
            /\ newKeyblockCallback = p
            /\ pc[p] = "parked"
            /\ pc'[p] = "save"]_vars

\* C36: a block has been refused while prove was running, and the search
\* goes on.
C36_Witness ==
  /\ gen.pc = "proving"
  /\ computationActivated
  /\ newKeyblockCallback = 0
  /\ Failed(lastResult)

\* The links that checkHaveEnoughLinks counts for a key, and the keys that
\* certify it with a stored valid link or with a link of the block.
CountedLinks(lnks, target, nl) ==
  Cardinality(CurrentValidLinks(lnks, target)) + Len(LinksTo(nl, target))
DistinctCertifiers(lnks, target, nl) ==
  {lnks[i].source : i \in CurrentValidLinks(lnks, target)}
    \cup Range(LinksTo(nl, target))

\* C37: when a block is taken in, the number of links counted toward sigQty
\* for a key is the number of distinct keys that certify it, with a stored
\* valid link or with a certification of the block.
C37_DistinctCertifiersCounted ==
  [][\A p \in Procs :
       Accepted(p) =>
         \A target \in Keys :
           CountedLinks(links, target, newLinks'[p])
             = Cardinality(DistinctCertifiers(links, target, newLinks'[p]))]_vars

\* The pending memberships of an issuer.
PendingOf(pool, issuer) == SelectSeq(pool, LAMBDA ms : ms.issuer = issuer)

\* A stored membership of the hash and issuer of the entry is dated later.
LaterStored(pool, entry) ==
  \E i \in DOMAIN pool :
    /\ pool[i].hash = entry.hash
    /\ pool[i].issuer = entry.issuer
    /\ pool[i].date > entry.date

\* C38: the pool never holds two memberships of one issuer; a membership
\* taken in is the only one of its issuer afterwards; a membership is
\* refused as already received only when a membership of its hash and
\* issuer with a later date is stored, and such a membership is never taken
\* in.
C38_OnePerIssuer ==
  [][/\ \A k \in Keys : Len(PendingOf(memberships', k)) <= 1
     /\ MembershipReturns =>
          LET entry == lastResult'.entry IN
          /\ lastResult'.err = "" =>
                PendingOf(memberships', entry.issuer) = <<entry>>
          /\ lastResult'.err = "AlreadyReceived" =>
                LaterStored(memberships, entry)
          /\ LaterStored(memberships, entry) =>
                /\ lastResult'.err \in {"AlreadyReceived", "StorageError"}
                /\ memberships' = memberships]_vars

\* C38: with the memberships of two issuers in the pool, a membership
\* older than the stored one of its hash and issuer has been refused.
C38_Witness ==
  /\ lastResult # NoResult
  /\ "entry" \in DOMAIN lastResult
  /\ lastResult.err = "AlreadyReceived"
  /\ \E i \in DOMAIN memberships :
       /\ memberships[i].issuer = lastResult.entry.issuer
       /\ memberships[i].hash = lastResult.entry.hash
       /\ memberships[i].date > lastResult.entry.date
  /\ Len(memberships) > 1

\* C39: a membership is taken in only when it is an IN of a key that is no
\* member and has an eligible public key (a stored key that is in the
\* keychain or has a valid udid2), or an OUT of a member; the IN of a
\* member and the OUT of a key that is no member end with an error and
\* leave the pool as it was.
C39_MembershipAcceptance ==
  [][MembershipReturns =>
       LET entry == lastResult'.entry
           isJoin == entry.membership = "IN"
           isMember == member[entry.issuer]
           eligible == /\ entry.issuer \in pubkeys
                       /\ (entry.issuer \in trusted
                             \/ entry.issuer \notin NoUdid2)
       IN /\ lastResult'.err = "" =>
               IF isJoin THEN ~isMember /\ eligible ELSE isMember
          /\ isJoin = isMember =>
               lastResult'.err # "" /\ memberships' = memberships]_vars

\* C39: the IN of a member, the OUT of a key that is no member or the IN of
\* a key whose stored public key has no valid udid2 has been refused.
C39_Witness ==
  /\ lastResult # NoResult
  /\ "entry" \in DOMAIN lastResult
  /\ lastResult.err
       \in {"MemberCannotJoin", "NonMemberCannotLeave", "NeedsEligiblePubkey"}
  /\ Len(memberships) > 0

\* submit hands its outcome to its callback in this step.
SyncReturns == sync.res = NoRes /\ sync'.res # NoRes

\* The errors of the tests made before the request is tested against the
\* membership currently recorded.
EarlierErrors ==
  {"SignatureNotFound", "PubkeyNotFound", "BadSignature",
   "FingerprintMismatch", "AlreadyReceived", "TooLate"}

\* C40: a JOIN is refused as already joined when the membership currently
\* recorded is a JOIN or an ACTUALIZE, an ACTUALIZE or a LEAVE is refused
\* as not a member when no membership is currently recorded or when it is a
\* LEAVE (unless an earlier test has refused the request), in these cases
\* only, and a request refused so leaves the saved memberships and the
\* amendment to be voted, with the members written for it, as they were.
C40_RefusedRequests ==
  [][SyncReturns =>
       LET res == sync'.res
           joined == /\ res.current # NoMs
                     /\ res.current.membership \in {"JOIN", "ACTUALIZE"}
           isJoin == res.entry.membership = "JOIN"
       IN /\ isJoin /\ joined =>
               res.err \in EarlierErrors \cup {"AlreadyJoined"}
          /\ ~isJoin /\ ~joined =>
               res.err \in EarlierErrors \cup {"NotAMember"}
          /\ res.err = "AlreadyJoined" => isJoin /\ joined
          /\ res.err = "NotAMember" => ~isJoin /\ ~joined
          /\ res.err \in {"AlreadyJoined", "NotAMember"} =>
               /\ sync'.mss = sync.mss
               /\ sync'.amNext = sync.amNext
               /\ sync'.merkle = sync.merkle]_vars

\* C40: a LEAVE or an ACTUALIZE has been refused while the membership
\* currently recorded is a LEAVE, on a node that has saved a JOIN since.
C40_Witness ==
  /\ sync.res.err = "NotAMember"
  /\ sync.res.current.membership = "LEAVE"
  /\ Len(sync.mss) > 1
  /\ sync.amNext.membersChanges # <<>>

====
